---- MODULE Spec2Model ----
(***************************************************************************)
(* Cycle-accurate model of the LitePCIe Data Link Layer (litepcie/dll).    *)
(*                                                                         *)
(* Every Migen module is a synchronous circuit: in each clock tick the     *)
(* combinational signals are functions of the registers and of the inputs  *)
(* sampled in that tick, and all registers take their next value together  *)
(* at the clock edge.  A module is modelled by its registers, by a record  *)
(* holding the inputs of the current tick, and by one action per FSM state *)
(* (or one action per tick for a module without FSM) that computes the     *)
(* registers after the edge and draws the inputs of the next tick.         *)
(*                                                                         *)
(* Values wider than 31 bits are kept in pieces (the 64-bit payload as its  *)
(* 8 bytes, the 32-bit LCRC as two 16-bit halves), so that no arithmetic   *)
(* exceeds the integers of the checker.                                    *)
(***************************************************************************)
EXTENDS Integers, Sequences, FiniteSets, TLC

(***************************************************************************)
(* Program constants                                                       *)
(***************************************************************************)
DLL_SEQUENCE_NUM_WIDTH == 12

DLL_SEQUENCE_NUM_MAX == 4095

LCRC_WIDTH == 32

LCRC_POLYNOMIAL == 79764919

\* DLLP_CRC16_WIDTH, DLLP_CRC16_POLYNOMIAL 0x100B, DLLP_CRC16_INITIAL_VALUE
\* 0xFFFF and the DLLP types.
DLLP_CRC16_WIDTH == 16

DLLP_CRC16_POLYNOMIAL == 4107

DLLP_CRC16_INITIAL_VALUE == 65535

DLLP_TYPE_ACK == 0

DLLP_TYPE_NAK == 1

\* Number of sequence numbers (2^12): the modulus of every sequence counter.
SeqMod == 2 ^ DLL_SEQUENCE_NUM_WIDTH

\* Signal(DLL_SEQUENCE_NUM_WIDTH) arithmetic: results are truncated to 12 bits.
SeqAdd(s, d) == (s + d + SeqMod) % SeqMod

(***************************************************************************)
(* Bounds of the model                                                     *)
(***************************************************************************)
\* Packets presented to the receive engine in one run.
MaxRxPackets == 3

\* log2 of the depth of the retry buffer (the depth is a power of two).
DepthBits == 2

\* Entries pushed into the stand-alone retry buffer in one run.
MaxPushes == 5

\* TLPs offered to the transmit engine in a run.
MaxTxTlps == 4

\* Allocations requested from the stand-alone sequence number manager in a
\* run: one more than the 4096 sequence numbers.
MaxAllocs == 4097

\* Packets reported to the stand-alone sequence number manager in a run.
MaxSmRx == 2

\* Packets presented to the framer in a run.
MaxPipePackets == 3

\* Symbols presented to the stand-alone deframer in a run.
MaxDfSymbols == 12

\* Ticks PIPEExternalPHY is followed for after dll_tx accepted a TLP.
MaxPhyTicks == 64

\* Ticks within which a TLP accepted by dll_tx is expected on
\* dll_rx.tlp_source: 3 in DLLTX, 10 symbols, 6 in DLLRX, and as many again.
PhyLatencyBound == 32

(***************************************************************************)
(* Words                                                                   *)
(***************************************************************************)
\* A 32-bit value is the pair <<high half, low half>> of 16-bit numbers; a
\* 64-bit payload is the sequence of its 8 bytes, least-significant first.
Half == 2 ^ (LCRC_WIDTH \div 2)

\* Bit b of the non-negative integer n (n < 2^31, b < 31).
BitOf(n, b) == (n \div (2 ^ b)) % 2

Xor(a, b) == (a + b) % 2

RECURSIVE Xor16(_, _)
\* Bitwise exclusive or of two non-negative integers.
Xor16(a, b) ==
    IF a = 0 THEN b
    ELSE IF b = 0 THEN a
    ELSE 2 * Xor16(a \div 2, b \div 2) + Xor(a % 2, b % 2)

\* The 64-bit words 0xDEADBEEF and 0xDEADBEEFCAFEBABE used by the test
\* benches, least-significant byte first.
WordA == <<239, 190, 173, 222, 0, 0, 0, 0>>

WordB == <<190, 186, 254, 202, 239, 190, 173, 222>>

ZeroWord == <<0, 0, 0, 0, 0, 0, 0, 0>>

Payloads == {WordA, WordB}

(***************************************************************************)
(* LCRC-32 (common.py calculate_lcrc32, lcrc.py LCRC32Engine)              *)
(***************************************************************************)
\* LCRC_INITIAL_VALUE 0xFFFFFFFF.
LCRC_INITIAL_VALUE == <<Half - 1, Half - 1>>

\* One shift of the LFSR: feedback = state[-1] ^ din_bit becomes the new bit
\* 0, every other bit takes its lower neighbour, xor feedback at the
\* polynom_taps.  Bit 0 is a tap of the polynomial, so this is a left shift
\* by one followed, when feedback is set, by an xor with the polynomial.
LfsrShift(state, din_bit) ==
    LET feedback == Xor(state[1] \div (Half \div 2), din_bit)
        hi == ((2 * state[1]) % Half) + (state[2] \div (Half \div 2))
        lo == (2 * state[2]) % Half
    IN  IF feedback = 1
        THEN <<Xor16(hi, LCRC_POLYNOMIAL \div Half), Xor16(lo, LCRC_POLYNOMIAL % Half)>>
        ELSE <<hi, lo>>

RECURSIVE LfsrBits(_, _, _)
\* The bits bit_idx .. 7 of a byte, least-significant first.
LfsrBits(state, byte, bit_idx) ==
    IF bit_idx > 7 THEN state
    ELSE LET next == LfsrShift(state, BitOf(byte, bit_idx))
         IN  IF next[1] >= 0 THEN LfsrBits(next, byte, bit_idx + 1) ELSE next

\* LCRC32Engine with data_width = 8: crc_next from crc_prev and one byte.
\* The XOR equations the constructor builds are those of eight LFSR shifts.
LCRC32Engine(crc_prev, data) == LfsrBits(crc_prev, data, 0)

RECURSIVE LcrcFold(_, _, _)
\* The bytes k .. of data, one LCRC32Engine step each.
LcrcFold(state, data, k) ==
    IF k > Len(data) THEN state
    ELSE LET next == LfsrBits(state, data[k], 0)
         IN  IF next[1] >= 0 THEN LcrcFold(next, data, k + 1) ELSE next

\* calculate_lcrc32(data) for a non-empty byte sequence.
calculate_lcrc32(data) == LcrcFold(LCRC_INITIAL_VALUE, data, 1)

\* verify_lcrc32(data, crc).
verify_lcrc32(data, crc) == crc = calculate_lcrc32(data)

(***************************************************************************)
(* Parallel LFSR engines (lcrc.py LCRC32Engine, dllp.py DLLPCRC16Engine)   *)
(* and the DLLP CRC-16 (common.py calculate_dllp_crc16)                    *)
(***************************************************************************)
\* polynom_taps: the bits set in the polynomial.
PolynomTaps(width, polynom) ==
    {bit \in 0 .. width - 1 : bit < 31 /\ BitOf(polynom, bit) = 1}

\* _optimize_xors of the concatenation of two lists without duplicates:
\* the terms that occur an odd number of times.
OptimizeXors(a, b) == (a \ b) \cup (b \ a)

RECURSIVE LfsrEquations(_, _, _, _, _)
\* crc_bits after the data bits n .. data_width - 1: for each bit of
\* crc_next the terms ("state", i) and ("din", n) to be xored.
LfsrEquations(crc_bits, width, taps, data_width, n) ==
    IF n >= data_width THEN crc_bits
    ELSE LET feedback == crc_bits[width - 1] \cup {<<"din", n>>}
             shifted ==
                 [pos \in 0 .. width - 1 |->
                     IF pos = 0 THEN feedback
                     ELSE IF pos \in taps
                          THEN OptimizeXors(crc_bits[pos - 1], feedback)
                          ELSE crc_bits[pos - 1]]
         IN  LfsrEquations(shifted, width, taps, data_width, n + 1)

\* The equations the constructors build for a byte-wide engine.
LCRC32Equations ==
    LfsrEquations([i \in 0 .. LCRC_WIDTH - 1 |-> {<<"state", i>>}], LCRC_WIDTH,
                  PolynomTaps(LCRC_WIDTH, LCRC_POLYNOMIAL), 8, 0)

DLLPCRC16Equations ==
    LfsrEquations([i \in 0 .. DLLP_CRC16_WIDTH - 1 |-> {<<"state", i>>}], DLLP_CRC16_WIDTH,
                  PolynomTaps(DLLP_CRC16_WIDTH, DLLP_CRC16_POLYNOMIAL), 8, 0)

\* Reduce("XOR", xors): the parity of the terms that are 1, for the bits
\* state of crc_prev and the byte data.
ReduceXor(terms, state, data) ==
    Cardinality({t \in terms :
                    IF t[1] = "state" THEN state[t[2]] = 1 ELSE BitOf(data, t[2]) = 1}) % 2

RECURSIVE PackBits(_, _, _)
\* The number whose bits, from the least significant, are bits[from],
\* bits[from + 1], ..., n of them.
PackBits(bits, from, n) ==
    IF n = 0 THEN 0 ELSE bits[from] + 2 * PackBits(bits, from + 1, n - 1)

\* LCRC32Engine.crc_next as the XOR equations give it.
LCRC32EngineXor(crc_prev, data) ==
    LET state == [i \in 0 .. LCRC_WIDTH - 1 |->
                     IF i < 16 THEN BitOf(crc_prev[2], i) ELSE BitOf(crc_prev[1], i - 16)]
        next == [i \in 0 .. LCRC_WIDTH - 1 |-> ReduceXor(LCRC32Equations[i], state, data)]
    IN  <<PackBits(next, 16, 16), PackBits(next, 0, 16)>>

\* DLLPCRC16Engine.crc_next.
DLLPCRC16Engine(crc_prev, data) ==
    LET state == [i \in 0 .. DLLP_CRC16_WIDTH - 1 |-> BitOf(crc_prev, i)]
        next == [i \in 0 .. DLLP_CRC16_WIDTH - 1 |->
                    ReduceXor(DLLPCRC16Equations[i], state, data)]
    IN  PackBits(next, 0, DLLP_CRC16_WIDTH)

\* One shift of the 16-bit LFSR of calculate_dllp_crc16: a left shift by
\* one, the feedback in bit 0 and xored in at the other polynom_taps.
Lfsr16Shift(state, din_bit) ==
    LET feedback == Xor(BitOf(state, DLLP_CRC16_WIDTH - 1), din_bit)
        shifted == (2 * state) % (2 ^ DLLP_CRC16_WIDTH)
    IN  IF feedback = 1 THEN Xor16(shifted, DLLP_CRC16_POLYNOMIAL) ELSE shifted

RECURSIVE Lfsr16Bits(_, _, _)
\* The bits bit_idx .. 7 of a byte, least-significant first.
Lfsr16Bits(state, byte, bit_idx) ==
    IF bit_idx > 7 THEN state
    ELSE LET next == Lfsr16Shift(state, BitOf(byte, bit_idx))
         IN  IF next >= 0 THEN Lfsr16Bits(next, byte, bit_idx + 1) ELSE next

RECURSIVE Lfsr16Fold(_, _, _)
\* The bytes k .. of data.
Lfsr16Fold(state, data, k) ==
    IF k > Len(data) THEN state
    ELSE LET next == Lfsr16Bits(state, data[k], 0)
         IN  IF next >= 0 THEN Lfsr16Fold(next, data, k + 1) ELSE next

\* calculate_dllp_crc16(data) for the six bytes of a DLLP.
calculate_dllp_crc16(data) == Lfsr16Fold(DLLP_CRC16_INITIAL_VALUE, data, 1)

\* The LCRC of each payload of the model.
LcrcOf == [d \in Payloads |-> calculate_lcrc32(d)]

VARIABLES
    \* ---- DLLRX registers (rx.py)
    rx_state,            \* fsm state
    rx_current_data,     \* current_data
    rx_current_seq,      \* current_seq
    rx_current_lcrc,     \* current_lcrc
    rx_calculated_lcrc,  \* calculated_lcrc
    rx_lcrc_valid,       \* lcrc_valid
    rx_seq_valid,        \* seq_valid
    rx_last_acked_seq,   \* last_acked_seq
    rx_debug,            \* debug_lcrc_valid, debug_seq_valid
    rx_expected,         \* seq_manager.rx_expected
    \* ---- DLLRX inputs of the current tick
    rx_in,
    \* ---- observer of the DLLRX interfaces
    rx_pkts,             \* packets taken from phy_sink so far
    rx_start,            \* sequence number the run started at
    rx_obs,              \* what happened to the packet taken last
    rx_fwd_seqs,         \* sequence numbers forwarded on tlp_source, in order
    rx_last_fwd,         \* the packet forwarded last, as it was on phy_sink
    \* ---- RetryBuffer registers and memories (retry_buffer.py)
    rb_mem,              \* seq_mem and data_mem, one record per slot
    rb_write_ptr,        \* write_ptr
    rb_read_ptr,         \* read_ptr
    rb_ack_ptr,          \* ack_ptr
    rb_replaying,        \* replaying
    \* ---- observer of the RetryBuffer interfaces
    rb_start,            \* sequence number the run started at
    rb_pushes,           \* entries written so far
    rb_out,              \* entries written and not acknowledged, oldest first
    rb_spurious,         \* an ACK came while nothing was outstanding
    rb_replay,           \* the replay started by the last NAK
    rb_last_ack,         \* where the last ACK's sequence number was stored
    \* ---- DLLTX registers (tx.py) and those of its submodules
    tx_state,            \* fsm state
    tx_current_seq,      \* current_seq
    tx_current_data,     \* current_data
    tx_lcrc_value,       \* lcrc_value
    tx_debug,            \* debug_last_seq, debug_last_lcrc
    tx_counter,          \* seq_manager.tx_counter
    tx_acked_seq,        \* seq_manager.tx_acked_seq
    tx_lcrc_crc,         \* lcrc_gen.crc
    \* ---- observer of the DLLTX interfaces
    tx_start,            \* sequence number the run started at
    tx_seqs,             \* sequence numbers latched with the TLPs accepted, in order
    tx_allocs,           \* ticks in which seq_manager.tx_alloc was asserted
    tx_obs,              \* what happened to the TLP accepted last
    tx_replay_lost,      \* an entry left the replay port and was not on phy_source
    \* ---- SequenceNumberManager registers (sequence.py), stand-alone
    sm_tx_counter,       \* tx_counter
    sm_rx_expected,      \* rx_expected
    sm_tx_acked_seq,     \* tx_acked_seq
    \* ---- observer of the SequenceNumberManager interfaces
    sm_allocs,           \* ticks with tx_alloc so far
    sm_last_seq,         \* tx_seq_num in the last tick with tx_alloc
    sm_rx_count,         \* ticks with rx_valid so far
    \* ---- PIPETXPacketizer registers (pipe.py) and inputs of the current tick
    fr_state,            \* fsm state
    fr_byte_counter,     \* byte_counter
    fr_tx_data,          \* pipe_tx_data
    fr_tx_datak,         \* pipe_tx_datak
    fr_in,               \* sink.valid, sink.first, sink.dat
    \* ---- observer of the PIPETXPacketizer interfaces
    fr_count,            \* packets accepted so far
    fr_pkt,              \* sink.dat in the tick the last packet was accepted
    fr_emit,             \* what pipe_tx_data holds: "idle", "start", "data" or "end"
    fr_syms,             \* the symbols emitted for the last packet so far
    fr_sent,             \* the packets accepted, in order
    \* ---- PIPERXDepacketizer registers (pipe.py)
    df_state,            \* fsm state
    df_is_tlp,           \* is_tlp
    df_byte_counter,     \* byte_counter
    df_data_buffer,      \* data_buffer, as 8 bytes
    \* ---- observer of the PIPERXDepacketizer interfaces
    df_n,                \* symbols received so far
    df_last,             \* the symbol received last, what source showed with it, and source.ready
    df_pkt,              \* the packet the sender is sending
    df_nbytes,           \* data symbols received since the start symbol
    df_fillers,          \* control symbols ignored since the start symbol
    df_count,            \* payloads delivered on source so far
    \* ---- observer of PIPEExternalPHY (pipe_external_phy.py)
    phy_ticks,           \* ticks since dll_tx accepted a TLP, 0 before
    \* ---- LTSSM parameters, registers (ltssm.py) and inputs of the current tick
    lt_cfg,              \* gen, lanes, enable_* and detailed_substates
    lt_state,            \* fsm state
    lt_current_state,    \* current_state
    lt_link_up,          \* link_up
    lt_send_ts1,         \* send_ts1
    lt_send_ts2,         \* send_ts2
    lt_tx_elecidle,      \* tx_elecidle
    lt_link_speed,       \* link_speed
    lt_link_width,       \* link_width
    lt_configured_lanes, \* configured_lanes
    lt_ts1_rx_count,     \* ts1_rx_count
    lt_eq_phase,         \* eq_phase
    lt_eq_phase_timer,   \* eq_phase_timer
    lt_fts_counter,      \* fts_counter
    lt_send_fts,         \* send_fts
    lt_in,               \* the input signals
    \* ---- observer of the LTSSM
    lt_train,            \* ticks of an answering partner since Detect
    lt_seen,             \* what the partner showed since Recovery was entered
    lt_neg,              \* the width negotiated when Configuration was left for L0
    \* ---- lane inputs of a multi-lane LTSSM (ltssm.py)
    ln_lanes,            \* lanes
    ln_rx_lane_numbers,  \* rx_lane_numbers
    \* ---- LCRC32Generator and DLLPCRC16 on one bench (lcrc.py, dllp.py)
    cg_crc,              \* LCRC32Generator.crc
    cg_crc16,            \* DLLPCRC16.crc
    cg_in,               \* reset, data_valid, data_in of the current tick
    cg_fed,              \* observer: the bytes taken since the last reset
    \* ---- LCRC32Checker (lcrc.py)
    ck_crc,              \* crc
    ck_in,               \* reset, data_valid, data_in of the current tick
    ck_feed,             \* the bytes the bench sends: data, then four CRC bytes
    ck_data_len,         \* how many bytes of ck_feed are data
    ck_pos,              \* observer: bytes of ck_feed taken so far
    \* ---- DLLPAckGenerator / DLLPNakGenerator (dllp.py)
    dg_type,             \* which generator: DLLP_TYPE_ACK or DLLP_TYPE_NAK
    dg_state,            \* fsm state
    dg_seq_num_latched,  \* seq_num_latched
    dg_byte_count,       \* byte_count
    dg_crc,              \* crc.crc, the register of the DLLPCRC16 submodule
    dg_in,               \* seq_num and generate of the current tick
    dg_asked,            \* observer: seq_num when generate was last accepted
    dg_sent              \* observer: DLLPs put out since reset

rxVars ==
    <<rx_state, rx_current_data, rx_current_seq, rx_current_lcrc, rx_calculated_lcrc,
      rx_lcrc_valid, rx_seq_valid, rx_last_acked_seq, rx_debug, rx_expected, rx_in,
      rx_pkts, rx_start, rx_obs, rx_fwd_seqs, rx_last_fwd>>

rbVars ==
    <<rb_mem, rb_write_ptr, rb_read_ptr, rb_ack_ptr, rb_replaying, rb_start, rb_pushes,
      rb_out, rb_spurious, rb_replay, rb_last_ack>>

txVars ==
    <<tx_state, tx_current_seq, tx_current_data, tx_lcrc_value, tx_debug, tx_counter,
      tx_acked_seq, tx_lcrc_crc, tx_start, tx_seqs, tx_allocs, tx_obs, tx_replay_lost>>

smVars ==
    <<sm_tx_counter, sm_rx_expected, sm_tx_acked_seq, sm_allocs, sm_last_seq, sm_rx_count>>

frVars ==
    <<fr_state, fr_byte_counter, fr_tx_data, fr_tx_datak, fr_in, fr_count, fr_pkt,
      fr_emit, fr_syms, fr_sent>>

dfVars ==
    <<df_state, df_is_tlp, df_byte_counter, df_data_buffer, df_n, df_last, df_pkt,
      df_nbytes, df_fillers, df_count>>

phyVars == <<phy_ticks>>

ltVars ==
    <<lt_cfg, lt_state, lt_current_state, lt_link_up, lt_send_ts1, lt_send_ts2,
      lt_tx_elecidle, lt_link_speed, lt_link_width, lt_configured_lanes, lt_ts1_rx_count,
      lt_eq_phase, lt_eq_phase_timer, lt_fts_counter, lt_send_fts, lt_in, lt_train,
      lt_seen, lt_neg>>

lnVars == <<ln_lanes, ln_rx_lane_numbers>>

cgVars == <<cg_crc, cg_crc16, cg_in, cg_fed>>

ckVars == <<ck_crc, ck_in, ck_feed, ck_data_len, ck_pos>>

dgVars ==
    <<dg_type, dg_state, dg_seq_num_latched, dg_byte_count, dg_crc, dg_in, dg_asked, dg_sent>>

crcVars == <<cgVars, ckVars, dgVars>>

vars == <<rxVars, rbVars, txVars, smVars, frVars, dfVars, phyVars, ltVars, lnVars, crcVars>>

nonRxVars == <<rbVars, txVars, smVars, frVars, dfVars, phyVars, ltVars, lnVars, crcVars>>

nonRbVars == <<rxVars, txVars, smVars, frVars, dfVars, phyVars, ltVars, lnVars, crcVars>>

nonTxVars == <<rxVars, smVars, frVars, dfVars, ltVars, lnVars, crcVars>>

nonSmVars == <<rxVars, rbVars, txVars, frVars, dfVars, phyVars, ltVars, lnVars, crcVars>>

nonFrVars == <<rxVars, rbVars, txVars, smVars, dfVars, phyVars, ltVars, lnVars, crcVars>>

nonDfVars == <<rxVars, rbVars, txVars, smVars, frVars, phyVars, ltVars, lnVars, crcVars>>

nonPipeVars == <<rxVars, rbVars, txVars, smVars, phyVars, ltVars, lnVars, crcVars>>

nonLtVars == <<rxVars, rbVars, txVars, smVars, frVars, dfVars, phyVars, lnVars, crcVars>>

nonLnVars == <<rxVars, rbVars, txVars, smVars, frVars, dfVars, phyVars, ltVars, crcVars>>

dllVars == <<rxVars, rbVars, txVars, smVars, frVars, dfVars, phyVars, ltVars, lnVars>>

nonCgVars == <<dllVars, ckVars, dgVars>>

nonCkVars == <<dllVars, cgVars, dgVars>>

nonDgVars == <<dllVars, cgVars, ckVars>>

(***************************************************************************)
(* Sequence number manager (sequence.py), receive side                     *)
(***************************************************************************)
\* rx_expected after the clock edge: advanced, with wrap at the maximum,
\* in every tick with rx_valid.
SeqMgrRxNext(expected, rx_valid) ==
    IF rx_valid
    THEN IF expected = DLL_SEQUENCE_NUM_MAX THEN 0 ELSE expected + 1
    ELSE expected

(***************************************************************************)
(* DLL receive engine (rx.py, class DLLRX)                                 *)
(***************************************************************************)
\* The CRC values the COMPARE_CRC state rejects: 0x00000000, 0xFFFFFFFF,
\* 0xBADBADBA and 0xDEADBEEF.
RxBadLcrcs == {<<0, 0>>, <<65535, 65535>>, <<47835, 44474>>, <<57005, 48879>>}

\* The value COMPARE_CRC gives lcrc_valid and debug_lcrc_valid.
RxLcrcCheck(current_lcrc) == current_lcrc \notin RxBadLcrcs

\* A sequence check that also lets the packet after the expected one pass.
RxSeqCheckLoose(current_seq, expected) == current_seq \in {expected, SeqAdd(expected, 1)}

\* The comparison of CHECK_SEQ.
RxSeqCheck(current_seq, expected) == current_seq = expected

\* An ACK that carries the sequence number acknowledged before.
RxAckSeqNumStale == rx_last_acked_seq

\* The sequence number SEND_ACK puts on ack_source.
RxAckSeqNum == rx_current_seq

\* A NAK that carries the sequence number of the packet it rejects.
RxNakSeqNumRejected == rx_current_seq

\* The sequence number SEND_NAK puts on nak_source.
RxNakSeqNum == rx_last_acked_seq

\* The word FORWARD_TLP puts on tlp_source.
RxTlpData == rx_current_data

\* Output valid signals, combinational in the FSM state.
RxAckValid == rx_state = "SEND_ACK"

RxNakValid == rx_state = "SEND_NAK"

RxTlpValid == rx_state = "FORWARD_TLP"

RxPhyReady == rx_state = "IDLE"

\* A CRC value that is none of the rejected patterns and is the LCRC of no
\* payload of the model: 0x12345678, the "valid-looking" CRC of the tests.
LooksValidLcrc == <<4660, 22136>>

NoPkt == [data |-> ZeroWord, seq_num |-> 0, lcrc |-> <<0, 0>>]

RxNoInput ==
    [valid |-> FALSE, data |-> ZeroWord, seq_num |-> 0, lcrc |-> <<0, 0>>,
     ack_ready |-> FALSE, nak_ready |-> FALSE, tlp_ready |-> FALSE]

\* The packets the Deframer side may present: either payload, with its own
\* LCRC, a CRC that merely looks valid, or a rejected pattern, and with the
\* expected sequence number, the one before it (a duplicate) or the one
\* after it (a packet was lost).
RxPackets(expected) ==
    {[RxNoInput EXCEPT !.valid = TRUE, !.data = d, !.seq_num = SeqAdd(expected, k), !.lcrc = c] :
        d \in Payloads, k \in {-1, 0, 1},
        c \in {LcrcOf[WordA], LcrcOf[WordB], LooksValidLcrc, <<47835, 44474>>}}

\* The inputs the environment may drive in a tick; only the signals the
\* FSM state reads in that tick are varied.
RxInputs(state, pkts, expected) ==
    CASE state = "IDLE" ->
            {RxNoInput} \cup (IF pkts < MaxRxPackets THEN RxPackets(expected) ELSE {})
      [] state = "SEND_ACK" -> {[RxNoInput EXCEPT !.ack_ready = b] : b \in BOOLEAN}
      [] state = "SEND_NAK" -> {[RxNoInput EXCEPT !.nak_ready = b] : b \in BOOLEAN}
      [] state = "FORWARD_TLP" -> {[RxNoInput EXCEPT !.tlp_ready = b] : b \in BOOLEAN}
      [] OTHER -> {RxNoInput}

\* The observer's record of one packet: the packet as it was on phy_sink,
\* whether it repeats the packet forwarded before it, the verdict of CHECK_SEQ
\* and the value of rx_expected it was compared with, the handshakes seen
\* on ack_source, nak_source and tlp_source, and the ticks spent on it other
\* than those waiting for a consumer that was not ready.
RxFreshObs(pkt, dup, ticks) ==
    [pkt |-> pkt, dup |-> dup, accepted |-> FALSE, expected |-> 0, acks |-> 0,
     ack_seq |-> 0, naks |-> 0, nak_seq |-> 0, fwds |-> 0, fwd_data |-> ZeroWord,
     ticks |-> ticks]

\* The registers and the observer after s in-order packets, the last one
\* carrying payload d: the reset state when s = 0.
RxInitAt(s, d) ==
    /\ rx_state = "IDLE"
    /\ rx_current_data = IF s = 0 THEN ZeroWord ELSE d
    /\ rx_current_seq = IF s = 0 THEN 0 ELSE s - 1
    /\ rx_current_lcrc = IF s = 0 THEN <<0, 0>> ELSE LcrcOf[d]
    /\ rx_calculated_lcrc = IF s = 0 THEN <<0, 0>> ELSE LcrcOf[d]
    /\ rx_lcrc_valid = (s # 0)
    /\ rx_seq_valid = (s # 0)
    /\ rx_last_acked_seq = IF s = 0 THEN 0 ELSE s - 1
    /\ rx_debug = [lcrc_valid |-> (s # 0), seq_valid |-> (s # 0)]
    /\ rx_expected = s
    /\ rx_pkts = 0
    /\ rx_start = s
    /\ rx_obs = RxFreshObs(NoPkt, FALSE, 0)
    /\ rx_fwd_seqs = <<>>
    /\ rx_last_fwd =
            IF s = 0 THEN NoPkt ELSE [data |-> d, seq_num |-> s - 1, lcrc |-> LcrcOf[d]]
    /\ rx_in \in RxInputs("IDLE", 0, s)

\* The receive engine starts from reset, or two packets before its
\* sequence counter wraps.
RxStartSeqs == {0, DLL_SEQUENCE_NUM_MAX - 1}

RxInit == \E s \in RxStartSeqs : RxInitAt(s, WordA)

\* IDLE: phy_sink.ready is high; a valid packet is captured.
RxIdle ==
    /\ rx_state = "IDLE"
    /\ IF rx_in.valid
       THEN /\ rx_current_data' = rx_in.data
            /\ rx_current_seq' = rx_in.seq_num
            /\ rx_current_lcrc' = rx_in.lcrc
            /\ rx_state' = "CHECK_LCRC"
            /\ rx_pkts' = rx_pkts + 1
            /\ rx_obs' =
                  LET pkt == [data |-> rx_in.data, seq_num |-> rx_in.seq_num, lcrc |-> rx_in.lcrc]
                  IN  RxFreshObs(pkt, Len(rx_fwd_seqs) > 0 /\ pkt = rx_last_fwd, 1)
       ELSE UNCHANGED <<rx_current_data, rx_current_seq, rx_current_lcrc, rx_state, rx_pkts, rx_obs>>
    /\ rx_in' \in RxInputs(rx_state', rx_pkts', rx_expected)
    /\ UNCHANGED <<rx_calculated_lcrc, rx_lcrc_valid, rx_seq_valid, rx_last_acked_seq,
                   rx_debug, rx_expected, rx_start, rx_fwd_seqs, rx_last_fwd>>
    /\ UNCHANGED nonRxVars

\* CHECK_LCRC: no CRC is computed; the received CRC is copied.
RxCheckLcrc ==
    /\ rx_state = "CHECK_LCRC"
    /\ rx_calculated_lcrc' = rx_current_lcrc
    /\ rx_state' = "COMPARE_CRC"
    /\ rx_obs' = [rx_obs EXCEPT !.ticks = @ + 1]
    /\ rx_in' \in RxInputs(rx_state', rx_pkts, rx_expected)
    /\ UNCHANGED <<rx_current_data, rx_current_seq, rx_current_lcrc, rx_lcrc_valid,
                   rx_seq_valid, rx_last_acked_seq, rx_debug, rx_expected, rx_pkts,
                   rx_start, rx_fwd_seqs, rx_last_fwd>>
    /\ UNCHANGED nonRxVars

\* COMPARE_CRC: the received CRC is compared with the rejected patterns.
RxCompareCrc ==
    /\ rx_state = "COMPARE_CRC"
    /\ rx_lcrc_valid' = RxLcrcCheck(rx_current_lcrc)
    /\ rx_debug' = [rx_debug EXCEPT !.lcrc_valid = RxLcrcCheck(rx_current_lcrc)]
    /\ rx_state' = "CHECK_SEQ"
    /\ rx_obs' = [rx_obs EXCEPT !.ticks = @ + 1]
    /\ rx_in' \in RxInputs(rx_state', rx_pkts, rx_expected)
    /\ UNCHANGED <<rx_current_data, rx_current_seq, rx_current_lcrc, rx_calculated_lcrc,
                   rx_seq_valid, rx_last_acked_seq, rx_expected, rx_pkts, rx_start,
                   rx_fwd_seqs, rx_last_fwd>>
    /\ UNCHANGED nonRxVars

\* CHECK_SEQ: a packet with accepted CRC and the expected sequence number
\* pulses seq_manager.rx_valid and goes to SEND_ACK, any other to SEND_NAK.
RxCheckSeq ==
    /\ rx_state = "CHECK_SEQ"
    /\ LET ok == rx_lcrc_valid /\ RxSeqCheck(rx_current_seq, rx_expected)
       IN  /\ rx_seq_valid' = ok
           /\ rx_debug' = [rx_debug EXCEPT !.seq_valid = ok]
           /\ rx_expected' = SeqMgrRxNext(rx_expected, ok)
           /\ rx_state' = IF ok THEN "SEND_ACK" ELSE "SEND_NAK"
           /\ rx_obs' = [rx_obs EXCEPT !.accepted = ok, !.expected = rx_expected,
                                       !.ticks = @ + 1]
    /\ rx_in' \in RxInputs(rx_state', rx_pkts, rx_expected')
    /\ UNCHANGED <<rx_current_data, rx_current_seq, rx_current_lcrc, rx_calculated_lcrc,
                   rx_lcrc_valid, rx_last_acked_seq, rx_pkts, rx_start, rx_fwd_seqs,
                   rx_last_fwd>>
    /\ UNCHANGED nonRxVars

\* SEND_ACK: the ACK is held on ack_source until it is taken.
RxSendAck ==
    /\ rx_state = "SEND_ACK"
    /\ IF rx_in.ack_ready
       THEN /\ rx_last_acked_seq' = rx_current_seq
            /\ rx_state' = "FORWARD_TLP"
       ELSE UNCHANGED <<rx_last_acked_seq, rx_state>>
    /\ rx_obs' = IF RxAckValid /\ rx_in.ack_ready
                 THEN [rx_obs EXCEPT !.acks = @ + 1, !.ack_seq = RxAckSeqNum, !.ticks = @ + 1]
                 ELSE rx_obs
    /\ rx_in' \in RxInputs(rx_state', rx_pkts, rx_expected)
    /\ UNCHANGED <<rx_current_data, rx_current_seq, rx_current_lcrc, rx_calculated_lcrc,
                   rx_lcrc_valid, rx_seq_valid, rx_debug, rx_expected, rx_pkts, rx_start,
                   rx_fwd_seqs, rx_last_fwd>>
    /\ UNCHANGED nonRxVars

\* SEND_NAK: the NAK is held on nak_source until it is taken; the packet
\* is dropped.
RxSendNak ==
    /\ rx_state = "SEND_NAK"
    /\ IF rx_in.nak_ready
       THEN rx_state' = "IDLE"
       ELSE UNCHANGED rx_state
    /\ rx_obs' = IF RxNakValid /\ rx_in.nak_ready
                 THEN [rx_obs EXCEPT !.naks = @ + 1, !.nak_seq = RxNakSeqNum, !.ticks = @ + 1]
                 ELSE rx_obs
    /\ rx_in' \in RxInputs(rx_state', rx_pkts, rx_expected)
    /\ UNCHANGED <<rx_current_data, rx_current_seq, rx_current_lcrc, rx_calculated_lcrc,
                   rx_lcrc_valid, rx_seq_valid, rx_last_acked_seq, rx_debug, rx_expected,
                   rx_pkts, rx_start, rx_fwd_seqs, rx_last_fwd>>
    /\ UNCHANGED nonRxVars

\* FORWARD_TLP: the packet is held on tlp_source until it is taken.
RxForwardTlp ==
    /\ rx_state = "FORWARD_TLP"
    /\ IF rx_in.tlp_ready
       THEN rx_state' = "IDLE"
       ELSE UNCHANGED rx_state
    /\ IF RxTlpValid /\ rx_in.tlp_ready
       THEN /\ rx_obs' = [rx_obs EXCEPT !.fwds = @ + 1, !.fwd_data = RxTlpData, !.ticks = @ + 1]
            /\ rx_fwd_seqs' = Append(rx_fwd_seqs, rx_obs.pkt.seq_num)
            /\ rx_last_fwd' = rx_obs.pkt
       ELSE UNCHANGED <<rx_obs, rx_fwd_seqs, rx_last_fwd>>
    /\ rx_in' \in RxInputs(rx_state', rx_pkts, rx_expected)
    /\ UNCHANGED <<rx_current_data, rx_current_seq, rx_current_lcrc, rx_calculated_lcrc,
                   rx_lcrc_valid, rx_seq_valid, rx_last_acked_seq, rx_debug, rx_expected,
                   rx_pkts, rx_start>>
    /\ UNCHANGED nonRxVars

\* The receive engine in reset, with idle inputs.
RxReset == RxInitAt(0, WordA) /\ rx_in = RxNoInput

RxNext ==
    \/ RxIdle
    \/ RxCheckLcrc
    \/ RxCompareCrc
    \/ RxCheckSeq
    \/ RxSendAck
    \/ RxSendNak
    \/ RxForwardTlp

(***************************************************************************)
(* Retry buffer (retry_buffer.py, class RetryBuffer)                       *)
(***************************************************************************)
\* depth: the number of slots.
Depth == 2 ^ DepthBits

\* A pointer is a Signal(max=depth): an assignment keeps its low DepthBits
\* bits.
PtrTrunc(n) == n % Depth

NoEntry == [seq |-> 0, data |-> ZeroWord]

\* next_write_ptr as write_ptr + 1, without the wrap.
RbNextWritePtrNoWrap == rb_write_ptr + 1

\* next_write_ptr: write_ptr + 1 with explicit wrap at depth - 1.
RbNextWritePtr == IF rb_write_ptr = Depth - 1 THEN 0 ELSE rb_write_ptr + 1

\* empty, full, count and write_ready.
RbEmpty == rb_write_ptr = rb_ack_ptr

RbFull == RbNextWritePtr = rb_ack_ptr

RbCount == PtrTrunc(rb_write_ptr - rb_ack_ptr + Depth)

RbWriteReady == ~RbFull

\* replay_valid, replay_seq and replay_data (asynchronous read at read_ptr).
RbReplayValid == rb_replaying /\ rb_read_ptr # rb_write_ptr

RbReplayEntry == rb_mem[rb_read_ptr]

\* The comparison that ends replay mode: read_ptr + 1 is one bit wider than
\* the pointers, so it is not truncated before it is compared.
RbCaughtUp == rb_read_ptr + 1 = rb_write_ptr

\* ack_ptr after the clock edge: one slot further with every ACK, whatever
\* sequence number the ACK carries.
RbAckPtrNext(ack_valid, ack_seq) ==
    IF ack_valid THEN PtrTrunc(rb_ack_ptr + 1) ELSE rb_ack_ptr

\* read_ptr after the clock edge, a NAK starting the replay one slot past
\* ack_ptr.
RbReadPtrNextSkip(nak_valid, nak_seq, replay_ready) ==
    IF nak_valid THEN PtrTrunc(rb_ack_ptr + 1)
    ELSE IF RbReplayValid /\ replay_ready THEN PtrTrunc(rb_read_ptr + 1)
    ELSE rb_read_ptr

\* read_ptr after the clock edge: ack_ptr on a NAK, whatever sequence number
\* the NAK carries; else one slot further with every replayed entry.
RbReadPtrNext(nak_valid, nak_seq, replay_ready) ==
    IF nak_valid THEN rb_ack_ptr
    ELSE IF RbReplayValid /\ replay_ready THEN PtrTrunc(rb_read_ptr + 1)
    ELSE rb_read_ptr

\* replaying after the clock edge.
RbReplayingNext(nak_valid, replay_ready) ==
    IF nak_valid THEN TRUE
    ELSE IF RbReplayValid /\ replay_ready /\ RbCaughtUp THEN FALSE
    ELSE rb_replaying

\* The inputs of the retry buffer in one tick.
RbNoInput ==
    [write_valid |-> FALSE, write_seq |-> 0, write_data |-> ZeroWord,
     ack_valid |-> FALSE, ack_seq |-> 0, nak_valid |-> FALSE, nak_seq |-> 0,
     replay_ready |-> FALSE]

\* The observer's next record of the replay in progress: a NAK with no push
\* and no ACK in its tick starts a replay of the entries outstanding then;
\* the entries offered and taken on the replay interface are collected for
\* as long as no push and no ACK arrives.
RbReplayObs(in, we) ==
    LET taken == RbReplayValid /\ in.replay_ready
        none == [phase |-> "disturbed", nak_seq |-> 0, snapshot |-> <<>>, replayed |-> <<>>]
    IN  IF in.nak_valid
        THEN IF we \/ in.ack_valid
             THEN none
             ELSE [phase |-> "replay", nak_seq |-> in.nak_seq, snapshot |-> rb_out,
                   replayed |-> <<>>]
        ELSE IF rb_replay.phase = "replay"
             THEN IF we \/ in.ack_valid
                  THEN none
                  ELSE IF taken
                       THEN [rb_replay EXCEPT !.replayed = Append(@, RbReplayEntry)]
                       ELSE rb_replay
             ELSE rb_replay

\* The slot just past the outstanding entry stored with sequence number seq.
RbPastSeq(seq) ==
    IF \E k \in 1 .. Len(rb_out) : rb_out[k].seq = seq
    THEN LET k == CHOOSE k \in 1 .. Len(rb_out) : rb_out[k].seq = seq
         IN  [found |-> TRUE, ptr |-> PtrTrunc(rb_out[k].slot + 1)]
    ELSE [found |-> FALSE, ptr |-> 0]

\* One clock tick of the retry buffer with the inputs `in`: the write port,
\* the three pointers and the replay flag, and the observer.
RetryBufferTick(in) ==
    LET we == in.write_valid /\ RbWriteReady
        released == IF in.ack_valid /\ rb_out # <<>> THEN Tail(rb_out) ELSE rb_out
    IN  /\ rb_mem' =
              IF we
              THEN [rb_mem EXCEPT ![rb_write_ptr] = [seq |-> in.write_seq, data |-> in.write_data]]
              ELSE rb_mem
        /\ rb_write_ptr' = IF we THEN PtrTrunc(rb_write_ptr + 1) ELSE rb_write_ptr
        /\ rb_read_ptr' = RbReadPtrNext(in.nak_valid, in.nak_seq, in.replay_ready)
        /\ rb_replaying' = RbReplayingNext(in.nak_valid, in.replay_ready)
        /\ rb_ack_ptr' = RbAckPtrNext(in.ack_valid, in.ack_seq)
        /\ rb_pushes' = IF we THEN rb_pushes + 1 ELSE rb_pushes
        /\ rb_out' =
              IF we
              THEN Append(released,
                          [seq |-> in.write_seq, data |-> in.write_data, slot |-> rb_write_ptr])
              ELSE released
        /\ rb_spurious' = (rb_spurious \/ (in.ack_valid /\ rb_out = <<>>))
        /\ rb_replay' = RbReplayObs(in, we)
        /\ rb_last_ack' = IF in.ack_valid THEN RbPastSeq(in.ack_seq) ELSE rb_last_ack
        /\ UNCHANGED rb_start

\* The payload pushed with sequence number n in the stand-alone runs.
RbPayload(n) == IF n % 2 = 0 THEN WordA ELSE WordB

\* The slot that holds the last entry written to slot i before sequence
\* number s, after s pushes from reset (none for i >= s).
RbLastInSlot(s, i) == s - 1 - ((s - 1 - i) % Depth)

\* The retry buffer after s entries were pushed from reset, numbered 0 ..
\* s - 1, and acknowledged in order, with no NAK: the reset state when s = 0.
RbInitAt(s) ==
    /\ rb_mem = [i \in 0 .. (Depth - 1) |->
                    IF i < s
                    THEN [seq |-> RbLastInSlot(s, i), data |-> RbPayload(RbLastInSlot(s, i))]
                    ELSE NoEntry]
    /\ rb_write_ptr = PtrTrunc(s)
    /\ rb_ack_ptr = PtrTrunc(s)
    /\ rb_read_ptr = 0
    /\ rb_replaying = FALSE
    /\ rb_start = s
    /\ rb_pushes = 0
    /\ rb_out = <<>>
    /\ rb_spurious = FALSE
    /\ rb_replay = [phase |-> "none", nak_seq |-> 0, snapshot |-> <<>>, replayed |-> <<>>]
    /\ rb_last_ack = [found |-> FALSE, ptr |-> 0]

\* The sequence numbers an ACK or a NAK may carry: that of the oldest
\* outstanding entry, that of the newest, or the one before the oldest.
RbAckSeqs ==
    IF rb_out = <<>> THEN {SeqAdd(rb_start, rb_pushes - 1)}
    ELSE {rb_out[1].seq, rb_out[Len(rb_out)].seq, SeqAdd(rb_out[1].seq, -1)}

\* The inputs a test bench may drive in a tick: pushes carry consecutive
\* sequence numbers.
RbInputs ==
    {[write_valid |-> w,
      write_seq |-> IF w THEN SeqAdd(rb_start, rb_pushes) ELSE 0,
      write_data |-> IF w THEN RbPayload(SeqAdd(rb_start, rb_pushes)) ELSE ZeroWord,
      ack_valid |-> a, ack_seq |-> IF a THEN sa ELSE 0,
      nak_valid |-> n, nak_seq |-> IF n THEN sn ELSE 0,
      replay_ready |-> r] :
        w \in {b \in BOOLEAN : b => rb_pushes < MaxPushes},
        a \in BOOLEAN, sa \in RbAckSeqs, n \in BOOLEAN, sn \in RbAckSeqs, r \in BOOLEAN}

\* One tick of the stand-alone retry buffer.
RbTick ==
    /\ \E in \in RbInputs : RetryBufferTick(in)
    /\ UNCHANGED nonRbVars

RbStartSeqs == {0, DLL_SEQUENCE_NUM_MAX - 1}

RbInit == \E s \in RbStartSeqs : RbInitAt(s)

(***************************************************************************)
(* Transmit engine (tx.py, class DLLTX) with its sequence manager, its     *)
(* LCRC generator and its retry buffer                                     *)
(***************************************************************************)
\* seq_manager.tx_counter after the clock edge, counting every tick.
SeqMgrTxNextFree(counter, tx_alloc) ==
    IF counter = DLL_SEQUENCE_NUM_MAX THEN 0 ELSE counter + 1

\* seq_manager.tx_counter after the clock edge: wraps at DLL_SEQUENCE_NUM_MAX.
SeqMgrTxNext(counter, tx_alloc) ==
    IF tx_alloc
    THEN IF counter = DLL_SEQUENCE_NUM_MAX THEN 0 ELSE counter + 1
    ELSE counter

\* seq_manager.tx_acked_seq after the clock edge.
SeqMgrAckNext(acked, ack_valid, ack_seq_num) ==
    IF ack_valid THEN ack_seq_num ELSE acked

\* lcrc_gen.crc after the clock edge; the reset input is never driven.
LCRC32GeneratorNext(crc, data_valid, data_in) ==
    IF data_valid THEN LCRC32Engine(crc, data_in) ELSE crc

\* seq_manager.tx_alloc, asserted in every tick it ever is.
TxAllocAnyState(state, tlp_valid) == tlp_valid

\* seq_manager.tx_alloc: IDLE with a TLP on tlp_sink.
TxAlloc(state, tlp_valid) == state = "IDLE" /\ tlp_valid

\* The state after STORE, whatever write_ready says.
TxStoreNextBlind(write_ready) == "TX"

\* The state after STORE: TX once the retry buffer took the write.
TxStoreNext(write_ready) == IF write_ready THEN "TX" ELSE "STORE"

\* phy_source.valid and phy_source.data.
TxPhyValid == tx_state = "TX"

TxPhyData == IF tx_state = "TX" THEN tx_current_data ELSE ZeroWord

\* tlp_sink.ready.
TxTlpReady(phy_ready) == tx_state = "TX" /\ phy_ready

\* lcrc_gen.data_valid and lcrc_gen.data_in: the low byte of current_data.
TxLcrcDataValid == tx_state = "CALC_LCRC"

TxLcrcDataIn == IF tx_state = "CALC_LCRC" THEN tx_current_data[1] ELSE 0

\* retry_buffer.replay_ready is tied to 1; replay_valid, replay_seq and
\* replay_data are connected to nothing.
TxReplayReady == TRUE

\* The inputs of the retry buffer inside the engine.
TxRbInputs(in) ==
    [write_valid |-> tx_state = "STORE",
     write_seq |-> IF tx_state = "STORE" THEN tx_current_seq ELSE 0,
     write_data |-> IF tx_state = "STORE" THEN tx_current_data ELSE ZeroWord,
     ack_valid |-> in.ack_valid, ack_seq |-> in.ack_seq,
     nak_valid |-> in.nak_valid, nak_seq |-> in.nak_seq,
     replay_ready |-> TxReplayReady]

\* The sequence number an ACK carries: that of the oldest outstanding entry,
\* or the last one acknowledged when nothing is outstanding (a repeated ACK).
\* A NAK carries the last sequence number acknowledged.
TxAckSeq ==
    IF rb_out = <<>> THEN SeqAdd(rb_start, rb_pushes - 1) ELSE rb_out[1].seq

TxNakSeq ==
    IF rb_out = <<>> THEN SeqAdd(rb_start, rb_pushes - 1) ELSE SeqAdd(rb_out[1].seq, -1)

\* The payloads the next TLP may carry: either payload for the first TLP of
\* a run, then the two in turn, so that a TLP differs from the one before.
TxPayloads ==
    IF tx_seqs = <<>> THEN Payloads ELSE Payloads \ {tx_current_data}

\* The inputs the neighbours of the engine may drive in a tick; phy_ready
\* is read in TX only.
TxInputs ==
    {[tlp_valid |-> v, tlp_data |-> IF v THEN d ELSE ZeroWord, phy_ready |-> r,
      ack_valid |-> a, ack_seq |-> IF a THEN TxAckSeq ELSE 0,
      nak_valid |-> n, nak_seq |-> IF n THEN TxNakSeq ELSE 0] :
        v \in {b \in BOOLEAN : b => (tx_state # "IDLE" \/ Len(tx_seqs) < MaxTxTlps)},
        d \in TxPayloads, r \in {b \in BOOLEAN : b => tx_state = "TX"},
        a \in BOOLEAN, n \in BOOLEAN}

\* What every tick does whatever the state of the fsm: the sequence manager,
\* the LCRC generator, the retry buffer, and the observer of the replay port.
TxTick(in) ==
    /\ tx_counter' = SeqMgrTxNext(tx_counter, TxAlloc(tx_state, in.tlp_valid))
    /\ tx_acked_seq' = SeqMgrAckNext(tx_acked_seq, in.ack_valid, in.ack_seq)
    /\ tx_lcrc_crc' = LCRC32GeneratorNext(tx_lcrc_crc, TxLcrcDataValid, TxLcrcDataIn)
    /\ RetryBufferTick(TxRbInputs(in))
    /\ tx_allocs' = IF TxAlloc(tx_state, in.tlp_valid) THEN tx_allocs + 1 ELSE tx_allocs
    /\ tx_replay_lost' =
          (tx_replay_lost \/ (/\ RbReplayValid
                              /\ TxReplayReady
                              /\ ~(TxPhyValid /\ TxPhyData = RbReplayEntry.data)))
    /\ UNCHANGED tx_start
    /\ UNCHANGED nonTxVars

\* The observer's record of a TLP just accepted.
TxFreshObs(data) ==
    [data |-> data, writes |-> 0, presents |-> 0, store_stalled |-> FALSE,
     phy_stalled |-> FALSE]

\* IDLE: a TLP on tlp_sink is latched together with the sequence number
\* the sequence manager shows, and the counter is told to move on.
TxIdleFrom(ins) ==
    /\ tx_state = "IDLE"
    /\ \E in \in ins :
          /\ IF in.tlp_valid
             THEN /\ tx_current_seq' = tx_counter
                  /\ tx_current_data' = in.tlp_data
                  /\ tx_debug' = [tx_debug EXCEPT !.last_seq = tx_counter]
                  /\ tx_state' = "CALC_LCRC"
                  /\ tx_seqs' = Append(tx_seqs, tx_counter)
                  /\ tx_obs' = TxFreshObs(in.tlp_data)
             ELSE UNCHANGED <<tx_current_seq, tx_current_data, tx_debug, tx_state,
                              tx_seqs, tx_obs>>
          /\ UNCHANGED tx_lcrc_value
          /\ TxTick(in)

\* CALC_LCRC: the low byte of the TLP goes through the LCRC generator; the
\* value latched is the generator's output of this tick.
TxCalcLcrcFrom(ins) ==
    /\ tx_state = "CALC_LCRC"
    /\ \E in \in ins :
          /\ tx_lcrc_value' = tx_lcrc_crc
          /\ tx_debug' = [tx_debug EXCEPT !.last_lcrc = tx_lcrc_crc]
          /\ tx_state' = "STORE"
          /\ UNCHANGED <<tx_current_seq, tx_current_data, tx_seqs, tx_obs>>
          /\ TxTick(in)

\* STORE: the TLP is held on the write port of the retry buffer until the
\* buffer takes it.
TxStoreFrom(ins) ==
    /\ tx_state = "STORE"
    /\ \E in \in ins :
          /\ tx_state' = TxStoreNext(RbWriteReady)
          /\ tx_obs' = IF RbWriteReady
                       THEN [tx_obs EXCEPT !.writes = @ + 1]
                       ELSE [tx_obs EXCEPT !.store_stalled = TRUE]
          /\ UNCHANGED <<tx_current_seq, tx_current_data, tx_lcrc_value, tx_debug, tx_seqs>>
          /\ TxTick(in)

\* TX: the TLP is held on phy_source until the PHY takes it.
TxTxFrom(ins) ==
    /\ tx_state = "TX"
    /\ \E in \in ins :
          /\ tx_state' = IF in.phy_ready THEN "IDLE" ELSE "TX"
          /\ tx_obs' = IF in.phy_ready
                       THEN [tx_obs EXCEPT !.presents = @ + 1]
                       ELSE [tx_obs EXCEPT !.phy_stalled = TRUE]
          /\ UNCHANGED <<tx_current_seq, tx_current_data, tx_lcrc_value, tx_debug, tx_seqs>>
          /\ TxTick(in)

\* The engine with its neighbours driving every input.
TxIdle == TxIdleFrom(TxInputs) /\ UNCHANGED phyVars

TxCalcLcrc == TxCalcLcrcFrom(TxInputs) /\ UNCHANGED phyVars

TxStore == TxStoreFrom(TxInputs) /\ UNCHANGED phyVars

TxTx == TxTxFrom(TxInputs) /\ UNCHANGED phyVars

TxNext ==
    \/ TxIdle
    \/ TxCalcLcrc
    \/ TxStore
    \/ TxTx

\* lcrc_gen.crc after the low bytes of n TLPs went through it since reset,
\* the TLPs being RbPayload(0), RbPayload(1), ...: the reset value for n = 0;
\* for n = DLL_SEQUENCE_NUM_MAX - 2 and n = DLL_SEQUENCE_NUM_MAX - 1 the
\* values calculate_lcrc32 gives for 4093 and 4094 bytes 0xEF, 0xBE, 0xEF, ...
TxCrcAfter(n) ==
    IF n = DLL_SEQUENCE_NUM_MAX - 1 THEN <<15727, 10262>>
    ELSE IF n = DLL_SEQUENCE_NUM_MAX - 2 THEN <<13858, 41619>>
    ELSE LCRC_INITIAL_VALUE

\* The registers of the engine after s TLPs, numbered 0 .. s - 1, went
\* through it from reset and were acknowledged in order: the reset state
\* when s = 0.
TxInitAt(s) ==
    /\ tx_state = "IDLE"
    /\ tx_current_seq = (IF s = 0 THEN 0 ELSE s - 1)
    /\ tx_current_data = (IF s = 0 THEN ZeroWord ELSE RbPayload(s - 1))
    /\ tx_lcrc_value = (IF s = 0 THEN <<0, 0>> ELSE TxCrcAfter(s - 1))
    /\ tx_debug = [last_seq |-> tx_current_seq, last_lcrc |-> tx_lcrc_value]
    /\ tx_counter = s
    /\ tx_acked_seq = (IF s = 0 THEN 0 ELSE s - 1)
    /\ tx_lcrc_crc = TxCrcAfter(s)
    /\ tx_start = s
    /\ tx_seqs = <<>>
    /\ tx_allocs = 0
    /\ tx_obs = TxFreshObs(tx_current_data)
    /\ tx_replay_lost = FALSE

TxStartSeqs == {0, DLL_SEQUENCE_NUM_MAX - 1}

TxInit == \E s \in TxStartSeqs : TxInitAt(s) /\ RbInitAt(s)

(***************************************************************************)
(* Sequence number manager alone (sequence.py, class                       *)
(* SequenceNumberManager)                                                  *)
(***************************************************************************)
\* tx_seq_num: the counter, combinatorially.
SmTxSeqNum == sm_tx_counter

\* rx_expected_seq and rx_seq_error.
SmRxExpectedSeq == sm_rx_expected

SmRxSeqError(rx_valid, rx_seq_num) == rx_valid /\ rx_seq_num # sm_rx_expected

\* The inputs a test bench may drive in a tick.
SmInputs ==
    {[tx_alloc |-> a, rx_valid |-> r, rx_seq_num |-> IF r THEN rs ELSE 0,
      ack_valid |-> k, ack_seq_num |-> IF k THEN ks ELSE 0] :
        a \in {b \in BOOLEAN : b => sm_allocs < MaxAllocs},
        r \in {b \in BOOLEAN : b => sm_rx_count < MaxSmRx},
        rs \in {sm_rx_expected, SeqAdd(sm_rx_expected, 1)},
        k \in BOOLEAN, ks \in {0, DLL_SEQUENCE_NUM_MAX}}

\* One clock tick of the sequence number manager.
SmTick ==
    /\ \E in \in SmInputs :
          /\ sm_tx_counter' = SeqMgrTxNext(sm_tx_counter, in.tx_alloc)
          /\ sm_rx_expected' = SeqMgrRxNext(sm_rx_expected, in.rx_valid)
          /\ sm_tx_acked_seq' = SeqMgrAckNext(sm_tx_acked_seq, in.ack_valid, in.ack_seq_num)
          /\ sm_allocs' = IF in.tx_alloc THEN sm_allocs + 1 ELSE sm_allocs
          /\ sm_last_seq' = IF in.tx_alloc THEN SmTxSeqNum ELSE sm_last_seq
          /\ sm_rx_count' = IF in.rx_valid THEN sm_rx_count + 1 ELSE sm_rx_count
    /\ UNCHANGED nonSmVars

\* The sequence number manager in reset.
SmReset ==
    /\ sm_tx_counter = 0
    /\ sm_rx_expected = 0
    /\ sm_tx_acked_seq = 0
    /\ sm_allocs = 0
    /\ sm_last_seq = 0
    /\ sm_rx_count = 0

(***************************************************************************)
(* PIPE framer (pipe.py, class PIPETXPacketizer) and the electrical-idle   *)
(* request of PIPEInterface                                                *)
(***************************************************************************)
\* K-characters.
PIPE_K28_5_COM == 188

PIPE_K28_0_SKP == 28

PIPE_K27_7_STP == 251

PIPE_K28_2_SDP == 92

PIPE_K29_7_END == 253

PIPE_K30_7_EDB == 254

\* A payload whose bytes are the codes of K-characters, and one whose first
\* byte is a DLLP type (ACK).
WordK == <<188, 251, 92, 253, 253, 92, 251, 188>>

WordD == <<0, 253, 16, 0, 0, 0, 0, 92>>

PipePayloads == {WordA, WordK, WordD}

\* is_dllp: bits 7 and 6 of the first byte are 0.
FrIsDllp(dat) == dat[1] \div 64 = 0

\* The start symbol sent for every packet, whatever its first byte.
FrStartSymbolStp(dat) == PIPE_K27_7_STP

\* The start symbol: SDP for a DLLP, STP for a TLP.
FrStartSymbol(dat) == IF FrIsDllp(dat) THEN PIPE_K28_2_SDP ELSE PIPE_K27_7_STP

\* byte_array[byte_counter] with byte 0 the most significant byte.
FrByteMsbFirst(dat, byte_counter) == dat[8 - byte_counter]

\* byte_array[byte_counter]: byte 0 is the least significant byte of
\* sink.dat.
FrByte(dat, byte_counter) == dat[byte_counter + 1]

\* pipe_tx_elecidle of PIPEInterface: asserted when sink.valid is not.
PipeTxElecIdle == ~fr_in.valid

\* The symbol on pipe_tx_data and pipe_tx_datak.
FrSymbol == [d |-> fr_tx_data, k |-> fr_tx_datak]

FrNoInput == [valid |-> FALSE, first |-> FALSE, dat |-> ZeroWord]

\* The inputs the sender may drive in the next tick: sink.dat is held while
\* the framer reads the bytes of a packet; a new packet is presented only
\* while the bound of the run allows one.
FrInputs(next_state, count, dat) ==
    {[valid |-> v, first |-> f, dat |-> d] :
        v \in BOOLEAN,
        f \in {b \in BOOLEAN : (b /\ next_state = "IDLE") => count < MaxPipePackets},
        d \in IF next_state = "DATA" THEN {dat} ELSE PipePayloads}

\* The registers of the framer, and its observer, after one clock tick
\* with the inputs fr_in.
PIPETXPacketizerRegs ==
    /\ CASE fr_state = "IDLE" ->
              IF fr_in.valid /\ fr_in.first
              THEN /\ fr_tx_data' = FrStartSymbol(fr_in.dat)
                   /\ fr_tx_datak' = TRUE
                   /\ fr_byte_counter' = 0
                   /\ fr_state' = "DATA"
                   /\ fr_count' = fr_count + 1
                   /\ fr_pkt' = fr_in.dat
                   /\ fr_sent' = Append(fr_sent, fr_in.dat)
                   /\ fr_emit' = "start"
                   /\ fr_syms' = <<[d |-> fr_tx_data', k |-> fr_tx_datak']>>
              ELSE /\ fr_tx_data' = 0
                   /\ fr_tx_datak' = FALSE
                   /\ fr_emit' = "idle"
                   /\ UNCHANGED <<fr_byte_counter, fr_state, fr_count, fr_pkt, fr_sent,
                                  fr_syms>>
         [] fr_state = "DATA" ->
              /\ fr_tx_data' = FrByte(fr_in.dat, fr_byte_counter)
              /\ fr_tx_datak' = FALSE
              /\ fr_byte_counter' = (fr_byte_counter + 1) % 8
              /\ fr_state' = IF fr_byte_counter = 7 THEN "END" ELSE "DATA"
              /\ fr_emit' = "data"
              /\ fr_syms' = Append(fr_syms, [d |-> fr_tx_data', k |-> fr_tx_datak'])
              /\ UNCHANGED <<fr_count, fr_pkt, fr_sent>>
         [] fr_state = "END" ->
              /\ fr_tx_data' = PIPE_K29_7_END
              /\ fr_tx_datak' = TRUE
              /\ fr_state' = "IDLE"
              /\ fr_emit' = "end"
              /\ fr_syms' = Append(fr_syms, [d |-> fr_tx_data', k |-> fr_tx_datak'])
              /\ UNCHANGED <<fr_byte_counter, fr_count, fr_pkt, fr_sent>>

\* One clock tick of the framer with the inputs fr_in, the sender holding
\* sink.dat during the data symbols.
PIPETXPacketizerTick ==
    /\ PIPETXPacketizerRegs
    /\ fr_in' \in FrInputs(fr_state', fr_count', fr_in.dat)

\* The inputs of a sender that does not hold sink.dat for the framer:
\* during the data symbols it may go on to the word of its next packet,
\* WordD, at any tick.
FrFreeInputs(next_state, count, dat) ==
    {[valid |-> v, first |-> f, dat |-> d] :
        v \in BOOLEAN,
        f \in {b \in BOOLEAN : (b /\ next_state = "IDLE") => count < MaxPipePackets},
        d \in IF next_state = "DATA" THEN {dat, WordD} ELSE PipePayloads}

\* One clock tick of the framer with such a sender.
FrFreeTick ==
    /\ PIPETXPacketizerRegs
    /\ fr_in' \in FrFreeInputs(fr_state', fr_count', fr_in.dat)
    /\ UNCHANGED nonFrVars

\* The framer in reset, with idle inputs or a first packet on sink.
FrResetRegs ==
    /\ fr_state = "IDLE"
    /\ fr_byte_counter = 0
    /\ fr_tx_data = 0
    /\ fr_tx_datak = FALSE
    /\ fr_count = 0
    /\ fr_pkt = ZeroWord
    /\ fr_emit = "idle"
    /\ fr_syms = <<>>
    /\ fr_sent = <<>>

FrReset == FrResetRegs /\ fr_in = FrNoInput

FrInit == FrResetRegs /\ fr_in \in FrInputs("IDLE", 0, ZeroWord)

\* The three states of the framer's fsm.
FrIdle == fr_state = "IDLE" /\ PIPETXPacketizerTick /\ UNCHANGED nonFrVars

FrData == fr_state = "DATA" /\ PIPETXPacketizerTick /\ UNCHANGED nonFrVars

FrEnd == fr_state = "END" /\ PIPETXPacketizerTick /\ UNCHANGED nonFrVars

FrNext == FrIdle \/ FrData \/ FrEnd

(***************************************************************************)
(* PIPE deframer (pipe.py, class PIPERXDepacketizer)                       *)
(***************************************************************************)
\* A symbol is stored as data, whatever its control flag.
DfIsDataAny(sym) == TRUE

\* A symbol is stored as data when its control flag is clear.
DfIsData(sym) == ~sym.k

\* A start symbol: STP or SDP with the control flag set.
DfIsStart(sym) == sym.k /\ sym.d \in {PIPE_K27_7_STP, PIPE_K28_2_SDP}

\* The end symbol.
DfIsEnd(sym) == sym.k /\ sym.d = PIPE_K29_7_END

\* source.valid (with source.first and source.last) and source.dat in a tick
\* with the symbol sym on pipe_rx_data and pipe_rx_datak.
DfSourceValid(sym) == df_state = "DATA" /\ ~DfIsData(sym) /\ DfIsEnd(sym)

DfSourceDat(sym) == IF DfSourceValid(sym) THEN df_data_buffer ELSE ZeroWord

\* One clock tick of the deframer with the symbol sym on its input; pkt is
\* the packet the sender starts if sym is taken as a start symbol.
PIPERXDepacketizerTick(sym, pkt) ==
    /\ CASE df_state = "IDLE" ->
              IF DfIsStart(sym)
              THEN /\ df_is_tlp' = (sym.d = PIPE_K27_7_STP)
                   /\ df_byte_counter' = 0
                   /\ df_state' = "DATA"
                   /\ df_pkt' = pkt
                   /\ df_nbytes' = 0
                   /\ df_fillers' = 0
                   /\ UNCHANGED df_data_buffer
              ELSE UNCHANGED <<df_is_tlp, df_byte_counter, df_state, df_pkt, df_nbytes,
                               df_fillers, df_data_buffer>>
         [] df_state = "DATA" ->
              IF DfIsData(sym)
              THEN /\ df_data_buffer' = [df_data_buffer EXCEPT ![df_byte_counter + 1] = sym.d]
                   /\ df_byte_counter' = (df_byte_counter + 1) % 8
                   /\ df_nbytes' = df_nbytes + 1
                   /\ UNCHANGED <<df_is_tlp, df_state, df_pkt, df_fillers>>
              ELSE IF DfIsEnd(sym)
                   THEN /\ df_state' = "IDLE"
                        /\ UNCHANGED <<df_is_tlp, df_byte_counter, df_data_buffer, df_pkt,
                                       df_nbytes, df_fillers>>
                   ELSE /\ df_fillers' = df_fillers + 1
                        /\ UNCHANGED <<df_is_tlp, df_byte_counter, df_data_buffer, df_state,
                                       df_pkt, df_nbytes>>
    /\ \E ready \in BOOLEAN :
          df_last' = [sym |-> sym, valid |-> DfSourceValid(sym), dat |-> DfSourceDat(sym),
                      ready |-> ready]
    /\ df_count' = IF DfSourceValid(sym) THEN df_count + 1 ELSE df_count

\* The symbols a sender may put on the deframer's input: a control symbol,
\* or the next byte of the packet it is sending (an idle byte outside a
\* packet and after the 8 bytes).
DfSymbols ==
    {[d |-> c, k |-> TRUE] :
        c \in {PIPE_K27_7_STP, PIPE_K28_2_SDP, PIPE_K29_7_END, PIPE_K28_0_SKP,
               PIPE_K28_5_COM}}
    \cup (IF df_state = "DATA" /\ df_nbytes < 8
          THEN {[d |-> df_pkt[df_nbytes + 1], k |-> FALSE]}
          ELSE IF df_state = "IDLE" THEN {[d |-> 0, k |-> FALSE]} ELSE {})

\* The deframer in reset.
DfReset ==
    /\ df_state = "IDLE"
    /\ df_is_tlp = FALSE
    /\ df_byte_counter = 0
    /\ df_data_buffer = ZeroWord
    /\ df_n = 0
    /\ df_last = [sym |-> [d |-> 0, k |-> FALSE], valid |-> FALSE, dat |-> ZeroWord,
                  ready |-> FALSE]
    /\ df_pkt = ZeroWord
    /\ df_nbytes = 0
    /\ df_fillers = 0
    /\ df_count = 0

\* The two states of the deframer's fsm, fed by a sender of its own.
DfIdle ==
    /\ df_state = "IDLE"
    /\ df_n < MaxDfSymbols
    /\ \E sym \in DfSymbols, pkt \in PipePayloads : PIPERXDepacketizerTick(sym, pkt)
    /\ df_n' = df_n + 1
    /\ UNCHANGED nonDfVars

DfData ==
    /\ df_state = "DATA"
    /\ df_n < MaxDfSymbols
    /\ \E sym \in DfSymbols : PIPERXDepacketizerTick(sym, df_pkt)
    /\ df_n' = df_n + 1
    /\ UNCHANGED nonDfVars

DfNext == DfIdle \/ DfData

\* PIPEInterface with pipe_rx_data and pipe_rx_datak connected to
\* pipe_tx_data and pipe_tx_datak: one clock tick.
PipeLoopbackTick ==
    /\ PIPETXPacketizerTick
    /\ PIPERXDepacketizerTick(FrSymbol, fr_pkt)
    /\ UNCHANGED df_n
    /\ UNCHANGED nonPipeVars

(***************************************************************************)
(* LTSSM (ltssm.py, class LTSSM)                                           *)
(***************************************************************************)
\* POLLING.Active is left after ts1_rx_count >= 8.
LtPollingTs1Count == 8

\* An equalization phase is left when eq_phase_timer > 100.
LtEqPhaseTicks == 100

\* L0s.FTS is left when fts_counter >= 128.
LtNFts == 128

\* The parameters of the constructor: the default LTSSM, one with every
\* option and the simple states, and one with the detailed substates.
LtSimple ==
    [gen |-> 1, lanes |-> 1, enable_equalization |-> FALSE, enable_l0s |-> FALSE,
     enable_l1 |-> FALSE, enable_l2 |-> FALSE, detailed_substates |-> FALSE]

LtFull ==
    [gen |-> 2, lanes |-> 4, enable_equalization |-> TRUE, enable_l0s |-> TRUE,
     enable_l1 |-> TRUE, enable_l2 |-> TRUE, detailed_substates |-> FALSE]

LtDetailed == [LtFull EXCEPT !.detailed_substates = TRUE]

LtConfigs == {LtSimple, LtFull, LtDetailed}

\* The widths the partner advertises on rx_link_width: 0 is the reset value
\* of the signal, which a test bench that never drives it leaves there.
LtWidths == {0, 2, 8}

LtPollingStates ==
    {"POLLING", "POLLING_ACTIVE", "POLLING_CONFIGURATION", "POLLING_COMPLIANCE"}

LtEqStates ==
    {"RECOVERY_EQ_PHASE0", "RECOVERY_EQ_PHASE1", "RECOVERY_EQ_PHASE2", "RECOVERY_EQ_PHASE3"}

LtRecoveryStates ==
    {"RECOVERY", "RECOVERY_RCVRLOCK", "RECOVERY_RCVRCFG", "RECOVERY_IDLE", "RECOVERY_SPEED"}
    \cup LtEqStates

\* gen2_capable, eq_capable, l0s_capable, l1_capable, l2_capable: the reset
\* values the constructor gives them.
LtGen2Capable == lt_cfg.gen >= 2

LtEqCapable == lt_cfg.gen >= 2 /\ lt_cfg.enable_equalization

LtL0sCapable == lt_cfg.enable_l0s

LtL1Capable == lt_cfg.enable_l1

LtL2Capable == lt_cfg.enable_l2

\* speed_change_required.
LtSpeedChangeRequired ==
    LtGen2Capable /\ lt_in.rx_rate_id >= 2 /\ lt_link_speed = 1

\* negotiated_width that ignores the partner.
LtNegotiatedWidthOwn == lt_cfg.lanes

\* negotiated_width.
LtNegotiatedWidth ==
    IF lt_in.rx_link_width < lt_cfg.lanes THEN lt_in.rx_link_width ELSE lt_cfg.lanes

\* The state Recovery is entered in from L0 and L1.
LtRecoveryEntry ==
    IF lt_cfg.detailed_substates THEN "RECOVERY_RCVRLOCK" ELSE "RECOVERY"

\* POLLING.Active waiting for a count no 4-bit counter reaches.
LtTs1EnoughNever == lt_ts1_rx_count >= 2 * LtPollingTs1Count

\* ts1_rx_count >= 8.
LtTs1Enough == lt_ts1_rx_count >= LtPollingTs1Count

\* The NextState of the fsm in the current state with the current inputs.
LtNextState ==
    CASE lt_state = "DETECT" ->
            IF ~lt_in.rx_elecidle
            THEN (IF lt_cfg.detailed_substates THEN "POLLING_ACTIVE" ELSE "POLLING")
            ELSE "DETECT"
      [] lt_state = "POLLING" ->
            IF lt_in.ts1_detected THEN "CONFIGURATION" ELSE "POLLING"
      [] lt_state = "POLLING_ACTIVE" ->
            IF lt_in.rx_compliance_request THEN "POLLING_COMPLIANCE"
            ELSE IF LtTs1Enough THEN "POLLING_CONFIGURATION"
            ELSE "POLLING_ACTIVE"
      [] lt_state = "POLLING_CONFIGURATION" ->
            IF lt_in.ts2_detected THEN "CONFIGURATION" ELSE "POLLING_CONFIGURATION"
      [] lt_state = "POLLING_COMPLIANCE" -> "POLLING_COMPLIANCE"
      [] lt_state = "CONFIGURATION" ->
            IF lt_in.ts2_detected THEN "L0" ELSE "CONFIGURATION"
      [] lt_state = "L0" ->
            IF LtL1Capable /\ lt_in.enter_l1 THEN "L1"
            ELSE IF LtL0sCapable /\ lt_in.enter_l0s THEN "L0s_IDLE"
            ELSE IF LtSpeedChangeRequired THEN "RECOVERY_SPEED"
            ELSE IF lt_in.rx_elecidle THEN LtRecoveryEntry
            ELSE "L0"
      [] lt_state = "RECOVERY" ->
            IF LtEqCapable /\ lt_in.force_equalization THEN "RECOVERY_EQ_PHASE0"
            ELSE IF ~lt_in.rx_elecidle /\ lt_in.ts1_detected THEN "L0"
            ELSE "RECOVERY"
      [] lt_state = "RECOVERY_RCVRLOCK" ->
            IF ~lt_in.rx_elecidle /\ lt_in.ts1_detected THEN "RECOVERY_RCVRCFG"
            ELSE "RECOVERY_RCVRLOCK"
      [] lt_state = "RECOVERY_RCVRCFG" ->
            IF lt_in.ts1_detected THEN "RECOVERY_IDLE" ELSE "RECOVERY_RCVRCFG"
      [] lt_state = "RECOVERY_IDLE" ->
            IF lt_in.ts2_detected THEN "L0" ELSE "RECOVERY_IDLE"
      [] lt_state = "RECOVERY_SPEED" ->
            IF lt_in.ts1_detected THEN "L0" ELSE "RECOVERY_SPEED"
      [] lt_state = "RECOVERY_EQ_PHASE0" ->
            IF lt_eq_phase_timer > LtEqPhaseTicks THEN "RECOVERY_EQ_PHASE1" ELSE lt_state
      [] lt_state = "RECOVERY_EQ_PHASE1" ->
            IF lt_eq_phase_timer > LtEqPhaseTicks THEN "RECOVERY_EQ_PHASE2" ELSE lt_state
      [] lt_state = "RECOVERY_EQ_PHASE2" ->
            IF lt_eq_phase_timer > LtEqPhaseTicks THEN "RECOVERY_EQ_PHASE3" ELSE lt_state
      [] lt_state = "RECOVERY_EQ_PHASE3" ->
            IF lt_eq_phase_timer > LtEqPhaseTicks THEN "L0" ELSE lt_state
      [] lt_state = "L0s_IDLE" ->
            IF lt_in.exit_l0s THEN "L0s_FTS" ELSE "L0s_IDLE"
      [] lt_state = "L0s_FTS" ->
            IF lt_fts_counter >= LtNFts THEN "L0" ELSE "L0s_FTS"
      [] lt_state = "L1" ->
            IF LtL2Capable /\ lt_in.enter_l2 THEN "L2"
            ELSE IF lt_in.exit_l1 THEN LtRecoveryEntry
            ELSE "L1"
      [] lt_state = "L2" ->
            IF lt_in.exit_l2 THEN "DETECT" ELSE "L2"

\* NextValue(link_up, .) with RECOVERY_SPEED leaving link_up alone.
LtLinkUpNextSpeed ==
    IF lt_state \in {"L0", "L0s_IDLE"} THEN TRUE
    ELSE IF lt_state \in {"DETECT", "RECOVERY", "RECOVERY_RCVRLOCK", "L1", "L2"}
         THEN FALSE
         ELSE lt_link_up

\* NextValue(link_up, .): set in L0 and L0s_IDLE, cleared in DETECT,
\* RECOVERY, RECOVERY_RCVRLOCK, RECOVERY_SPEED, L1 and L2, kept elsewhere.
LtLinkUpNext ==
    IF lt_state \in {"L0", "L0s_IDLE"} THEN TRUE
    ELSE IF lt_state \in {"DETECT", "RECOVERY", "RECOVERY_RCVRLOCK", "RECOVERY_SPEED",
                          "L1", "L2"}
         THEN FALSE
         ELSE lt_link_up

\* NextValue(send_ts1, .) with L0 leaving send_ts1 alone.
LtSendTs1NextL0 ==
    IF lt_state \in {"POLLING", "POLLING_ACTIVE", "POLLING_COMPLIANCE", "RECOVERY",
                     "RECOVERY_RCVRLOCK", "RECOVERY_RCVRCFG", "RECOVERY_SPEED",
                     "RECOVERY_EQ_PHASE0"}
    THEN TRUE
    ELSE IF lt_state \in {"POLLING_CONFIGURATION", "CONFIGURATION", "RECOVERY_IDLE"}
         THEN FALSE
         ELSE lt_send_ts1

\* NextValue(send_ts1, .).
LtSendTs1Next ==
    IF lt_state \in {"POLLING", "POLLING_ACTIVE", "POLLING_COMPLIANCE", "RECOVERY",
                     "RECOVERY_RCVRLOCK", "RECOVERY_RCVRCFG", "RECOVERY_SPEED",
                     "RECOVERY_EQ_PHASE0"}
    THEN TRUE
    ELSE IF lt_state \in {"POLLING_CONFIGURATION", "CONFIGURATION", "L0", "RECOVERY_IDLE"}
         THEN FALSE
         ELSE lt_send_ts1

\* NextValue(send_ts2, .).
LtSendTs2Next ==
    IF lt_state \in {"POLLING_CONFIGURATION", "CONFIGURATION", "RECOVERY_IDLE"} THEN TRUE
    ELSE IF lt_state \in {"POLLING", "POLLING_ACTIVE", "L0", "RECOVERY",
                          "RECOVERY_RCVRLOCK", "RECOVERY_SPEED"}
         THEN FALSE
         ELSE lt_send_ts2

\* NextValue(tx_elecidle, .) with L1 leaving tx_elecidle alone.
LtTxElecIdleNextL1 ==
    IF lt_state \in {"DETECT", "L0s_IDLE", "L2"} THEN TRUE
    ELSE IF lt_state \in {"POLLING", "POLLING_ACTIVE", "CONFIGURATION", "L0", "RECOVERY",
                          "RECOVERY_RCVRLOCK", "RECOVERY_SPEED", "L0s_FTS"}
         THEN FALSE
         ELSE lt_tx_elecidle

\* NextValue(tx_elecidle, .).
LtTxElecIdleNext ==
    IF lt_state \in {"DETECT", "L0s_IDLE", "L1", "L2"} THEN TRUE
    ELSE IF lt_state \in {"POLLING", "POLLING_ACTIVE", "CONFIGURATION", "L0", "RECOVERY",
                          "RECOVERY_RCVRLOCK", "RECOVERY_SPEED", "L0s_FTS"}
         THEN FALSE
         ELSE lt_tx_elecidle

\* NextValue(ts1_rx_count, .), a 4-bit counter.
LtTs1RxCountNext ==
    IF lt_state = "POLLING_ACTIVE"
    THEN IF lt_in.rx_compliance_request \/ LtTs1Enough THEN 0
         ELSE IF lt_in.ts1_detected THEN (lt_ts1_rx_count + 1) % 16
         ELSE lt_ts1_rx_count
    ELSE lt_ts1_rx_count

\* NextValue(eq_phase_timer, .), a 16-bit counter: cleared on the way into
\* phase 0 and between the phases, not when phase 3 is left.
LtEqPhaseTimerNext ==
    IF lt_state = "RECOVERY" /\ LtNextState = "RECOVERY_EQ_PHASE0" THEN 0
    ELSE IF lt_state \in LtEqStates
         THEN IF lt_state # "RECOVERY_EQ_PHASE3" /\ lt_eq_phase_timer > LtEqPhaseTicks
              THEN 0
              ELSE (lt_eq_phase_timer + 1) % 65536
         ELSE lt_eq_phase_timer

\* NextValue(eq_phase, .).
LtEqPhaseNext ==
    CASE lt_state = "RECOVERY_EQ_PHASE0" -> 0
      [] lt_state = "RECOVERY_EQ_PHASE1" -> 1
      [] lt_state = "RECOVERY_EQ_PHASE2" -> 2
      [] lt_state = "RECOVERY_EQ_PHASE3" -> 3
      [] OTHER -> lt_eq_phase

\* NextValue(fts_counter, .), an 8-bit counter, and NextValue(send_fts, .).
LtFtsCounterNext ==
    IF lt_state = "L0s_IDLE" /\ lt_in.exit_l0s THEN 0
    ELSE IF lt_state = "L0s_FTS" THEN (lt_fts_counter + 1) % 256
    ELSE lt_fts_counter

LtSendFtsNext ==
    IF lt_state = "L0s_FTS" THEN ~(lt_fts_counter >= LtNFts) ELSE lt_send_fts

\* The input signals at rest.
LtNoInput ==
    [rx_elecidle |-> FALSE, ts1_detected |-> FALSE, ts2_detected |-> FALSE,
     rx_rate_id |-> 0, rx_link_width |-> 0, enter_l0s |-> FALSE, exit_l0s |-> FALSE,
     enter_l1 |-> FALSE, exit_l1 |-> FALSE, enter_l2 |-> FALSE, exit_l2 |-> FALSE,
     force_equalization |-> FALSE, rx_compliance_request |-> FALSE]

LtVary(b) == IF b THEN BOOLEAN ELSE {FALSE}

\* The inputs the neighbours may drive while the fsm is in a state: the
\* signals the state reads, and rx_elecidle throughout Recovery. The
\* request signals the fsm clears (exit_l0s, exit_l1, exit_l2,
\* force_equalization) can be set again by their owner in any tick.
LtInputs(state) ==
    {[rx_elecidle |-> e, ts1_detected |-> t1, ts2_detected |-> t2, rx_rate_id |-> r,
      rx_link_width |-> w, enter_l0s |-> a, exit_l0s |-> b, enter_l1 |-> c,
      exit_l1 |-> d, enter_l2 |-> f, exit_l2 |-> g, force_equalization |-> h,
      rx_compliance_request |-> q] :
        e \in LtVary(state \in {"DETECT", "L0"} \cup LtRecoveryStates),
        t1 \in LtVary(state \in {"POLLING", "POLLING_ACTIVE", "RECOVERY",
                                 "RECOVERY_RCVRLOCK", "RECOVERY_RCVRCFG",
                                 "RECOVERY_SPEED"}),
        t2 \in LtVary(state \in {"POLLING_CONFIGURATION", "CONFIGURATION",
                                 "RECOVERY_IDLE"}),
        r \in IF state = "L0" THEN {1, 2} ELSE {0},
        w \in IF state = "CONFIGURATION" THEN LtWidths ELSE {0},
        a \in LtVary(state = "L0"), b \in LtVary(state = "L0s_IDLE"),
        c \in LtVary(state = "L0"), d \in LtVary(state = "L1"),
        f \in LtVary(state = "L1"), g \in LtVary(state = "L2"),
        h \in LtVary(state = "RECOVERY"), q \in LtVary(state = "POLLING_ACTIVE")}

\* The ticks the fsm needs from Detect to link_up with a partner that
\* answers at once: Detect, Polling, Configuration and L0, and in
\* POLLING.Active the ticks that count the TS1s, then POLLING.Configuration.
LtTrainTicks ==
    IF lt_cfg.detailed_substates THEN LtPollingTs1Count + 5 ELSE 4

\* The partner answers in this tick: it is detected in Detect, its TS1 is
\* seen in Polling and its TS2 in Configuration; the first tick of L0
\* after that counts whatever the inputs.
LtAnswering ==
    CASE lt_state = "DETECT" -> ~lt_in.rx_elecidle
      [] lt_state \in {"POLLING", "POLLING_ACTIVE"} ->
            lt_train > 0 /\ lt_in.ts1_detected /\ ~lt_in.rx_compliance_request
      [] lt_state \in {"POLLING_CONFIGURATION", "CONFIGURATION"} ->
            lt_train > 0 /\ lt_in.ts2_detected
      [] lt_state = "L0" -> lt_train > 0 /\ lt_train < LtTrainTicks
      [] OTHER -> FALSE

\* One clock tick of the LTSSM with the inputs lt_in.
LTSSMTick ==
    /\ lt_state' = LtNextState
    /\ lt_current_state' = lt_state
    /\ lt_link_up' = LtLinkUpNext
    /\ lt_send_ts1' = LtSendTs1Next
    /\ lt_send_ts2' = LtSendTs2Next
    /\ lt_tx_elecidle' = LtTxElecIdleNext
    /\ lt_link_speed' = IF lt_state = "RECOVERY_SPEED" THEN 2 ELSE lt_link_speed
    /\ lt_link_width' =
          IF lt_state = "CONFIGURATION" THEN LtNegotiatedWidth ELSE lt_link_width
    /\ lt_configured_lanes' =
          IF lt_state = "CONFIGURATION" THEN LtNegotiatedWidth ELSE lt_configured_lanes
    /\ lt_ts1_rx_count' = LtTs1RxCountNext
    /\ lt_eq_phase' = LtEqPhaseNext
    /\ lt_eq_phase_timer' = LtEqPhaseTimerNext
    /\ lt_fts_counter' = LtFtsCounterNext
    /\ lt_send_fts' = LtSendFtsNext
    /\ lt_in' \in LtInputs(lt_state')
    /\ lt_train' = IF LtAnswering THEN lt_train + 1 ELSE 0
    /\ lt_seen' =
          IF lt_state \in LtRecoveryStates
          THEN [active |-> lt_seen.active \/ ~lt_in.rx_elecidle,
                ts1 |-> lt_seen.ts1 \/ lt_in.ts1_detected, run |-> 0]
          ELSE [active |-> FALSE, ts1 |-> FALSE,
                run |-> IF lt_state = "POLLING_ACTIVE" /\ lt_in.ts1_detected
                        THEN lt_seen.run + 1
                        ELSE 0]
    /\ lt_neg' =
          IF lt_state = "CONFIGURATION"
          THEN [valid |-> LtNextState = "L0", rx_link_width |-> lt_in.rx_link_width]
          ELSE lt_neg
    /\ UNCHANGED lt_cfg

\* The LTSSM out of reset.
LtResetRegs(cfg) ==
    /\ lt_cfg = cfg
    /\ lt_state = "DETECT"
    /\ lt_current_state = "DETECT"
    /\ lt_link_up = FALSE
    /\ lt_send_ts1 = FALSE
    /\ lt_send_ts2 = FALSE
    /\ lt_tx_elecidle = TRUE
    /\ lt_link_speed = 1
    /\ lt_link_width = cfg.lanes
    /\ lt_configured_lanes = 0
    /\ lt_ts1_rx_count = 0
    /\ lt_eq_phase = 0
    /\ lt_eq_phase_timer = 0
    /\ lt_fts_counter = 0
    /\ lt_send_fts = FALSE
    /\ lt_train = 0
    /\ lt_seen = [active |-> FALSE, ts1 |-> FALSE, run |-> 0]
    /\ lt_neg = [valid |-> FALSE, rx_link_width |-> 0]

LtReset == LtResetRegs(LtSimple) /\ lt_in = LtNoInput

LtInit == \E cfg \in LtConfigs : LtResetRegs(cfg) /\ lt_in \in LtInputs("DETECT")

\* The fsm by families of states.
LtDetect == lt_state = "DETECT" /\ LTSSMTick /\ UNCHANGED nonLtVars

LtPolling == lt_state \in LtPollingStates /\ LTSSMTick /\ UNCHANGED nonLtVars

LtConfiguration == lt_state = "CONFIGURATION" /\ LTSSMTick /\ UNCHANGED nonLtVars

LtL0 == lt_state = "L0" /\ LTSSMTick /\ UNCHANGED nonLtVars

LtRecovery ==
    /\ lt_state \in LtRecoveryStates \ LtEqStates
    /\ LTSSMTick
    /\ UNCHANGED nonLtVars

LtEqualization == lt_state \in LtEqStates /\ LTSSMTick /\ UNCHANGED nonLtVars

LtL0s == lt_state \in {"L0s_IDLE", "L0s_FTS"} /\ LTSSMTick /\ UNCHANGED nonLtVars

LtL1 == lt_state = "L1" /\ LTSSMTick /\ UNCHANGED nonLtVars

LtL2 == lt_state = "L2" /\ LTSSMTick /\ UNCHANGED nonLtVars

LtNext ==
    \/ LtDetect
    \/ LtPolling
    \/ LtConfiguration
    \/ LtL0
    \/ LtRecovery
    \/ LtEqualization
    \/ LtL0s
    \/ LtL1
    \/ LtL2

(***************************************************************************)
(* Lane reversal of a multi-lane LTSSM (ltssm.py, LTSSM.__init__)          *)
(***************************************************************************)
\* The lane count of the multi-lane LTSSM of the model.
LnLanes == 4

\* lane_reversal: lane 0 carries the highest lane number; never in a
\* single-lane LTSSM.
LaneReversal ==
    IF ln_lanes > 1 THEN ln_rx_lane_numbers[1] = ln_lanes - 1 ELSE FALSE

\* logical_lane_map[i], lanes counted from 0.
LogicalLaneMap(i) ==
    IF ln_lanes > 1 THEN (IF LaneReversal THEN ln_lanes - 1 - i ELSE i) ELSE 0

\* The lane numbers the partner may send: any number of the link on any
\* lane.
LnInputs(lanes) == [1 .. lanes -> 0 .. lanes - 1]

\* rx_lane_numbers out of reset: 0 on every lane.
LnReset == ln_lanes = 1 /\ ln_rx_lane_numbers = <<0>>

LnInit ==
    /\ ln_lanes \in {1, LnLanes}
    /\ ln_rx_lane_numbers = [i \in 1 .. ln_lanes |-> 0]

\* The partner changes the lane numbers it sends.
LnTick ==
    /\ ln_rx_lane_numbers' \in LnInputs(ln_lanes)
    /\ UNCHANGED ln_lanes
    /\ UNCHANGED nonLnVars

(***************************************************************************)
(* PIPEExternalPHY (pipe_external_phy.py): dll_tx, pipe and dll_rx as the  *)
(* wrapper instantiates them, with pipe_rx looped back to pipe_tx          *)
(***************************************************************************)
\* dll_tx.phy_source is connected to nothing (the connection to
\* pipe.dll_tx_sink is commented out): ready keeps its reset value.
PhyDllTxPhyReady == FALSE

\* dll_tx.ack_sink and dll_tx.nak_sink are connected to nothing.
PhyDllTxAckValid == FALSE

PhyDllTxNakValid == FALSE

\* The inputs of dll_tx inside the wrapper: tlp_sink is driven by the
\* Transaction Layer side, everything else keeps its reset value.
PhyTxInputs ==
    {in \in TxInputs : /\ in.phy_ready = PhyDllTxPhyReady
                       /\ in.ack_valid = PhyDllTxAckValid
                       /\ in.nak_valid = PhyDllTxNakValid}

PhyTicksNext == IF tx_seqs' = <<>> THEN 0 ELSE phy_ticks + 1

PhyReset == phy_ticks = 0

\* One clock tick of the wrapper, by the state of dll_tx. pipe.dll_tx_sink
\* and dll_rx.phy_sink are connected to nothing, so that the framer, the
\* deframer and dll_rx see idle inputs and keep their reset state.
PhyIdle == TxIdleFrom(PhyTxInputs) /\ phy_ticks' = PhyTicksNext

PhyCalcLcrc == TxCalcLcrcFrom(PhyTxInputs) /\ phy_ticks' = PhyTicksNext

PhyStore == TxStoreFrom(PhyTxInputs) /\ phy_ticks' = PhyTicksNext

PhyTx ==
    /\ phy_ticks < MaxPhyTicks
    /\ TxTxFrom(PhyTxInputs)
    /\ phy_ticks' = PhyTicksNext

PhyNext == PhyIdle \/ PhyCalcLcrc \/ PhyStore \/ PhyTx

(***************************************************************************)
(* The CRC generators on a bench (lcrc.py LCRC32Generator, dllp.py         *)
(* DLLPCRC16)                                                              *)
(***************************************************************************)
\* The bytes the bench feeds, and how many it feeds after a reset.
CrcBytes == {0, 18, 255}

MaxCrcBytes == 6

\* DLLP_DATA_LENGTH_BYTES: the bytes of a DLLP the CRC-16 covers.
DLLP_DATA_LENGTH_BYTES == 6

CgNoInput == [reset |-> FALSE, data_valid |-> FALSE, data_in |-> 0]

\* The inputs of a tick: a reset, a byte, an idle tick (data_in is then
\* whatever the bench left on the wires), or a reset together with a byte.
CgInputs(fed) ==
    {i \in [reset : BOOLEAN, data_valid : BOOLEAN, data_in : CrcBytes] :
        (i.data_valid /\ ~i.reset) => Len(fed) < MaxCrcBytes}

\* An LCRC32Generator that takes whatever is on data_in in every tick.
LCRC32GeneratorCrcUngated(crc, reset, data_valid, data_in) ==
    IF reset THEN LCRC_INITIAL_VALUE ELSE LCRC32EngineXor(crc, data_in)

\* LCRC32Generator sync: reset loads LCRC_INITIAL_VALUE, otherwise
\* data_valid loads engine.crc_next, otherwise crc is held.
LCRC32GeneratorCrc(crc, reset, data_valid, data_in) ==
    IF reset THEN LCRC_INITIAL_VALUE
    ELSE IF data_valid THEN LCRC32EngineXor(crc, data_in)
    ELSE crc

\* DLLPCRC16 sync, the same with the 16-bit engine.
DLLPCRC16Crc(crc, reset, data_valid, data_in) ==
    IF reset THEN DLLP_CRC16_INITIAL_VALUE
    ELSE IF data_valid THEN DLLPCRC16Engine(crc, data_in)
    ELSE crc

CgReset ==
    /\ cg_crc = LCRC_INITIAL_VALUE
    /\ cg_crc16 = DLLP_CRC16_INITIAL_VALUE
    /\ cg_fed = <<>>
    /\ cg_in = CgNoInput

CgInit ==
    /\ cg_crc = LCRC_INITIAL_VALUE
    /\ cg_crc16 = DLLP_CRC16_INITIAL_VALUE
    /\ cg_fed = <<>>
    /\ cg_in \in CgInputs(<<>>)

\* One clock tick of the two generators, both wired to the same bench.
CgTick ==
    /\ cg_crc' = LCRC32GeneratorCrc(cg_crc, cg_in.reset, cg_in.data_valid, cg_in.data_in)
    /\ cg_crc16' = DLLPCRC16Crc(cg_crc16, cg_in.reset, cg_in.data_valid, cg_in.data_in)
    /\ cg_fed' = IF cg_in.reset THEN <<>>
                 ELSE IF cg_in.data_valid THEN Append(cg_fed, cg_in.data_in)
                 ELSE cg_fed
    /\ cg_in' \in CgInputs(cg_fed')
    /\ UNCHANGED nonCgVars

(***************************************************************************)
(* LCRC32Checker (lcrc.py)                                                 *)
(***************************************************************************)
\* The data the bench sends to the checker.
CkData == {<<222, 173, 190, 239>>, <<18, 52, 86, 120>>, <<0>>}

\* A 32-bit value as four bytes, least-significant first, as the bench
\* sends an LCRC.
CkCrcBytes(crc) == <<crc[2] % 256, crc[2] \div 256, crc[1] % 256, crc[1] \div 256>>

\* The four bytes sent after the data: the LCRC of the data, its
\* complement, the LCRC with its lowest or its highest bit flipped and,
\* after the data 0xDEADBEEF of the test bench, the bytes C7 A9 45 11.
CkCrcChoices(data) ==
    LET good == calculate_lcrc32(data)
    IN  {CkCrcBytes(good),
         CkCrcBytes(<<Half - 1 - good[1], Half - 1 - good[2]>>),
         CkCrcBytes(<<good[1], Xor16(good[2], 1)>>),
         CkCrcBytes(<<Xor16(good[1], Half \div 2), good[2]>>)}
        \cup (IF data = <<222, 173, 190, 239>> THEN {<<199, 169, 69, 17>>} ELSE {})

CkNoInput == [reset |-> FALSE, data_valid |-> FALSE, data_in |-> 0]

\* The inputs of a tick: the next byte of the feed, an idle tick or a reset
\* (after which the bench starts the feed again).
CkInputs(feed, pos) ==
    {CkNoInput, [reset |-> TRUE, data_valid |-> FALSE, data_in |-> 0]}
    \cup {[reset |-> FALSE, data_valid |-> TRUE, data_in |-> feed[k]] :
             k \in {pos + 1} \cap (1 .. Len(feed))}

\* LCRC32Checker sync: the register of the generator.
LCRC32CheckerCrc(crc, reset, data_valid, data_in) ==
    IF reset THEN LCRC_INITIAL_VALUE
    ELSE IF data_valid THEN LCRC32EngineXor(crc, data_in)
    ELSE crc

\* crc_error = (crc != LCRC_INITIAL_VALUE) & ~data_valid.
crc_error(crc, data_valid) == crc # LCRC_INITIAL_VALUE /\ ~data_valid

CkReset ==
    /\ ck_crc = LCRC_INITIAL_VALUE
    /\ ck_feed = <<>>
    /\ ck_data_len = 0
    /\ ck_pos = 0
    /\ ck_in = CkNoInput

CkInit ==
    /\ ck_crc = LCRC_INITIAL_VALUE
    /\ \E data \in CkData : \E bytes \in CkCrcChoices(data) :
          /\ ck_feed = data \o bytes
          /\ ck_data_len = Len(data)
    /\ ck_pos = 0
    /\ ck_in \in CkInputs(ck_feed, 0)

\* One clock tick of the checker.
CkTick ==
    /\ ck_crc' = LCRC32CheckerCrc(ck_crc, ck_in.reset, ck_in.data_valid, ck_in.data_in)
    /\ ck_pos' = IF ck_in.reset THEN 0
                 ELSE IF ck_in.data_valid THEN ck_pos + 1
                 ELSE ck_pos
    /\ ck_in' \in CkInputs(ck_feed, ck_pos')
    /\ UNCHANGED <<ck_feed, ck_data_len>>
    /\ UNCHANGED nonCkVars

(***************************************************************************)
(* DLLPAckGenerator and DLLPNakGenerator (dllp.py)                         *)
(***************************************************************************)
\* The sequence numbers the receive side asks to acknowledge, and how many
\* DLLPs are asked for in a run.
DgSeqNums == {0, 42, 300, DLL_SEQUENCE_NUM_MAX}

MaxDllps == 3

DgNoInput == [seq_num |-> 0, generate |-> FALSE]

DgInputs(sent) ==
    {i \in [seq_num : DgSeqNums, generate : BOOLEAN] : i.generate => sent < MaxDllps}

\* The six bytes of a DLLP that the CRC-16 covers: the type in the high
\* nibble of byte 0, the sequence number in bytes 1 and 2, three zero bytes.
DllpData(type, seq_num) ==
    <<type * 16, seq_num % 256, seq_num \div 256, 0, 0, 0>>

\* GENERATE_CRC: the Case over byte_count that drives crc.data_in.
DgCrcDataIn(type, seq_num_latched, byte_count) ==
    IF byte_count < DLLP_DATA_LENGTH_BYTES
    THEN DllpData(type, seq_num_latched)[byte_count + 1]
    ELSE 0

DgResetRegs ==
    /\ dg_state = "IDLE"
    /\ dg_seq_num_latched = 0
    /\ dg_byte_count = 0
    /\ dg_crc = DLLP_CRC16_INITIAL_VALUE
    /\ dg_asked = 0
    /\ dg_sent = 0

DgReset == DgResetRegs /\ dg_type = DLLP_TYPE_ACK /\ dg_in = DgNoInput

DgInit ==
    /\ DgResetRegs
    /\ dg_type \in {DLLP_TYPE_ACK, DLLP_TYPE_NAK}
    /\ dg_in \in DgInputs(0)

\* The outputs of the generator in the current tick.
dllp_valid == dg_state = "OUTPUT"

dllp_type == IF dg_state = "OUTPUT" THEN dg_type ELSE 0

dllp_seq_num == IF dg_state = "OUTPUT" THEN dg_seq_num_latched ELSE 0

dllp_crc == IF dg_state = "OUTPUT" THEN dg_crc ELSE 0

\* One clock tick of a generator.  The reset input of its DLLPCRC16 is
\* driven nowhere, so it stays 0; data_valid is 1 in GENERATE_CRC only.
DgTick ==
    /\ dg_crc' = DLLPCRC16Crc(dg_crc, FALSE, dg_state = "GENERATE_CRC",
                              DgCrcDataIn(dg_type, dg_seq_num_latched, dg_byte_count))
    /\ CASE dg_state = "IDLE" ->
              IF dg_in.generate
              THEN /\ dg_state' = "GENERATE_CRC"
                   /\ dg_seq_num_latched' = dg_in.seq_num
                   /\ dg_byte_count' = 0
                   /\ dg_asked' = dg_in.seq_num
                   /\ UNCHANGED dg_sent
              ELSE UNCHANGED <<dg_state, dg_seq_num_latched, dg_byte_count, dg_asked, dg_sent>>
         [] dg_state = "GENERATE_CRC" ->
              /\ dg_byte_count' = (dg_byte_count + 1) % 8
              /\ dg_state' = IF dg_byte_count = 5 THEN "OUTPUT" ELSE "GENERATE_CRC"
              /\ dg_sent' = IF dg_byte_count = 5 THEN dg_sent + 1 ELSE dg_sent
              /\ UNCHANGED <<dg_seq_num_latched, dg_asked>>
         [] dg_state = "OUTPUT" ->
              /\ dg_state' = "IDLE"
              /\ UNCHANGED <<dg_seq_num_latched, dg_byte_count, dg_asked, dg_sent>>
    /\ dg_in' \in DgInputs(dg_sent')
    /\ UNCHANGED dg_type
    /\ UNCHANGED nonDgVars

\* The CRC benches and the DLLP generators at rest.
CrcReset == CgReset /\ CkReset /\ DgReset

(***************************************************************************)
(* Specifications                                                          *)
(***************************************************************************)
\* The receive engine alone; the other modules rest in reset.
InitRX ==
    RxInit /\ RbInitAt(0) /\ TxInitAt(0) /\ SmReset /\ FrReset /\ DfReset /\ PhyReset /\ LtReset /\ LnReset /\ CrcReset

SpecRX == InitRX /\ [][RxNext]_vars

\* The retry buffer alone, driven as the test benches drive it.
InitRB ==
    RbInit /\ RxReset /\ TxInitAt(0) /\ SmReset /\ FrReset /\ DfReset /\ PhyReset /\ LtReset /\ LnReset /\ CrcReset

SpecRB == InitRB /\ [][RbTick]_vars

\* The transmit engine with its retry buffer.
InitTX ==
    TxInit /\ RxReset /\ SmReset /\ FrReset /\ DfReset /\ PhyReset /\ LtReset /\ LnReset /\ CrcReset

SpecTX == InitTX /\ [][TxNext]_vars

\* The sequence number manager alone.
InitSM ==
    SmReset /\ RxReset /\ RbInitAt(0) /\ TxInitAt(0) /\ FrReset /\ DfReset /\ PhyReset /\ LtReset /\ LnReset /\ CrcReset

SpecSM == InitSM /\ [][SmTick]_vars

\* The other modules in reset.
DllReset ==
    RxReset /\ RbInitAt(0) /\ TxInitAt(0) /\ SmReset /\ PhyReset /\ LtReset /\ LnReset

\* The framer alone, with the electrical-idle request of PIPEInterface.
InitFR == FrInit /\ DfReset /\ DllReset /\ CrcReset

SpecFR == InitFR /\ [][FrNext]_vars

\* The deframer alone.
InitDF == DfReset /\ FrReset /\ DllReset /\ CrcReset

SpecDF == InitDF /\ [][DfNext]_vars

\* The framer with a sender that may change sink.dat at any time.
InitFRX == InitFR

SpecFRX == InitFRX /\ [][FrFreeTick]_vars

\* PIPEInterface in loopback.
InitLOOP == FrInit /\ DfReset /\ DllReset /\ CrcReset

SpecLOOP == InitLOOP /\ [][PipeLoopbackTick]_vars

\* PIPEExternalPHY from reset, TLPs presented to dll_tx.tlp_sink.
InitPHY == DllReset /\ FrReset /\ DfReset /\ CrcReset

SpecPHY == InitPHY /\ [][PhyNext]_vars

\* The LTSSM from reset, with each set of parameters.
PipeReset == FrReset /\ DfReset

InitLT ==
    /\ LtInit
    /\ RxReset /\ RbInitAt(0) /\ TxInitAt(0) /\ SmReset /\ PhyReset /\ LnReset /\ PipeReset /\ CrcReset

SpecLT == InitLT /\ [][LtNext]_vars

\* The same with the clock ticking for ever.
SpecLTFair == SpecLT /\ WF_vars(LtNext)

\* The lane inputs of a single-lane and of a multi-lane LTSSM.
InitLN ==
    /\ LnInit
    /\ RxReset /\ RbInitAt(0) /\ TxInitAt(0) /\ SmReset /\ PhyReset /\ LtReset /\ PipeReset /\ CrcReset

SpecLN == InitLN /\ [][LnTick]_vars

\* The two CRC generators on their bench.
InitCRC == CgInit /\ CkReset /\ DgReset /\ DllReset /\ PipeReset

SpecCRC == InitCRC /\ [][CgTick]_vars

\* The LCRC checker fed data and four CRC bytes.
InitCK == CkInit /\ CgReset /\ DgReset /\ DllReset /\ PipeReset

SpecCK == InitCK /\ [][CkTick]_vars

\* An ACK or a NAK generator.
InitDG == DgInit /\ CgReset /\ CkReset /\ DllReset /\ PipeReset

SpecDG == InitDG /\ [][DgTick]_vars

(***************************************************************************)
(* Properties of the receive engine                                        *)
(***************************************************************************)
\* C1: the sequence numbers forwarded on tlp_source are start, start+1, ...
\* (mod 4096) in that order, each once; a forwarded packet passed the CRC
\* check of the engine and carried the sequence number expected when it was
\* checked, and it is forwarded once.
C1_ForwardInOrder ==
    /\ \A i \in 1 .. Len(rx_fwd_seqs) : rx_fwd_seqs[i] = (rx_start + i - 1) % SeqMod
    /\ rx_obs.fwds > 0 =>
          /\ rx_obs.fwds = 1
          /\ rx_obs.accepted
          /\ RxLcrcCheck(rx_obs.pkt.lcrc)
          /\ rx_obs.pkt.seq_num = rx_obs.expected

\* Three packets forwarded across the wrap of the sequence counter.
C1_Witness == rx_fwd_seqs = <<DLL_SEQUENCE_NUM_MAX - 1, DLL_SEQUENCE_NUM_MAX, 0>>

\* C2: a packet with the LCRC of its payload and the expected sequence
\* number passes the checks of the engine; a packet that passed them gets one
\* ACK with its own sequence number, then is forwarded once with the payload
\* it arrived with, and never a NAK; not counting the ticks in which the
\* awaited consumer is not ready, the ACK is given in the 5th tick and the
\* packet forwarded in the 6th tick, counting the tick it was taken from
\* phy_sink as the 1st.
C2_AckThenForward ==
    /\ (/\ rx_pkts > 0
        /\ rx_state \in {"SEND_ACK", "SEND_NAK", "FORWARD_TLP", "IDLE"}
        /\ verify_lcrc32(rx_obs.pkt.data, rx_obs.pkt.lcrc)
        /\ rx_obs.pkt.seq_num = rx_obs.expected) => rx_obs.accepted
    /\ rx_obs.accepted =>
          /\ rx_obs.naks = 0
          /\ rx_obs.acks = (IF rx_state = "SEND_ACK" THEN 0 ELSE 1)
          /\ rx_obs.acks = 1 => rx_obs.ack_seq = rx_obs.pkt.seq_num
          /\ rx_obs.fwds = (IF rx_state \in {"SEND_ACK", "FORWARD_TLP"} THEN 0 ELSE 1)
          /\ rx_obs.fwds = 1 => rx_obs.fwd_data = rx_obs.pkt.data
          /\ rx_obs.ticks = 4 + rx_obs.acks + rx_obs.fwds
          /\ rx_state \in {"SEND_ACK", "FORWARD_TLP", "IDLE"}

\* A packet with a correct LCRC was acknowledged and forwarded.
C2_Witness ==
    /\ rx_state = "IDLE"
    /\ rx_obs.accepted
    /\ rx_obs.pkt.data = WordB
    /\ verify_lcrc32(rx_obs.pkt.data, rx_obs.pkt.lcrc)
    /\ rx_obs.acks = 1
    /\ rx_obs.fwds = 1

\* C3: a packet whose attached CRC differs from the LCRC-32 recomputed over
\* its payload gets a NAK, no ACK, and is never forwarded.
C3_BadCrcRejected ==
    (rx_pkts > 0 /\ ~verify_lcrc32(rx_obs.pkt.data, rx_obs.pkt.lcrc)) =>
        /\ rx_obs.acks = 0
        /\ rx_obs.fwds = 0
        /\ rx_state = "IDLE" => rx_obs.naks = 1

\* C4: a packet that repeats the packet forwarded last (same sequence
\* number, same payload, correct LCRC) is acknowledged and not forwarded.
C4_DuplicateAcked ==
    (rx_state = "IDLE" /\ rx_obs.dup /\ verify_lcrc32(rx_obs.pkt.data, rx_obs.pkt.lcrc)) =>
        /\ rx_obs.acks = 1
        /\ rx_obs.fwds = 0


(***************************************************************************)
(* Properties of the retry buffer                                          *)
(***************************************************************************)
\* C8: after pushes and in-order ACKs of outstanding entries followed by a
\* NAK, the replay interface yields the entries pushed and not acknowledged,
\* each once, in push order, with the sequence number and payload they were
\* pushed with.
C8_ReplayOutstanding ==
    (rb_replay.phase = "replay" /\ ~rb_spurious) =>
        /\ Len(rb_replay.replayed) <= Len(rb_replay.snapshot)
        /\ \A k \in 1 .. Len(rb_replay.replayed) :
              /\ rb_replay.replayed[k].seq = rb_replay.snapshot[k].seq
              /\ rb_replay.replayed[k].data = rb_replay.snapshot[k].data
        /\ ~RbReplayValid => Len(rb_replay.replayed) = Len(rb_replay.snapshot)

\* Push 0, 1, 2; ack 0; nak: the replay has yielded exactly 1 and 2.
C8_Witness ==
    /\ rb_replay.phase = "replay"
    /\ ~rb_spurious
    /\ rb_start = 0
    /\ rb_pushes = 3
    /\ Len(rb_replay.replayed) = 2
    /\ rb_replay.replayed[1] = [seq |-> 1, data |-> RbPayload(1)]
    /\ rb_replay.replayed[2] = [seq |-> 2, data |-> RbPayload(2)]
    /\ ~RbReplayValid

\* C9: the buffer reports empty only when no pushed entry is outstanding,
\* and count is the number of outstanding entries.
C9_EmptyAndCount ==
    /\ RbEmpty => rb_out = <<>>
    /\ RbCount = Len(rb_out)

\* C10: after an ACK carrying the sequence number of an outstanding entry,
\* the ack pointer is just past the slot of that entry (in a run in which
\* no ACK came while nothing was outstanding).
C10_AckPastSeq ==
    (rb_last_ack.found /\ ~rb_spurious) => rb_ack_ptr = rb_last_ack.ptr

\* C11: the first entry replayed after a NAK is the one stored with the
\* sequence number that follows the one the NAK carried (in a run in which
\* no ACK came while nothing was outstanding).
C11_NakReplaysFromSeq ==
    (rb_replay.phase = "replay" /\ ~rb_spurious /\ rb_replay.replayed # <<>>) =>
        rb_replay.replayed[1].seq = SeqAdd(rb_replay.nak_seq, 1)

\* C12: replay mode is over once the replay pointer has caught the write
\* pointer (in a run in which no ACK came while nothing was outstanding).
C12_ReplayModeClears ==
    (rb_replaying /\ ~rb_spurious) => rb_read_ptr # rb_write_ptr

\* C13 as stated: with no ACK since the empty start, full is not reported
\* after any of the first Depth - 1 pushes.
C13_NotFullAfterPushes ==
    (~rb_spurious /\ Len(rb_out) = rb_pushes /\ rb_pushes <= Depth - 1) => ~RbFull

\* C13 amended: with no ACK since the empty start, full is not reported
\* after any of the first Depth - 2 pushes and is reported after push
\* Depth - 1, so that one more push is refused; acknowledging one entry
\* then clears full.
C13_FullAfterDepthMinusOne ==
    ~rb_spurious =>
        /\ Len(rb_out) = rb_pushes => /\ rb_pushes <= Depth - 1
                                      /\ RbFull <=> rb_pushes = Depth - 1
                                      /\ RbWriteReady <=> ~RbFull
        /\ (rb_pushes = Depth - 1 /\ Len(rb_out) = Depth - 2) => ~RbFull

\* Depth - 1 pushes from the empty start, then one ACK: full is cleared.
C13_Witness ==
    /\ ~rb_spurious
    /\ rb_pushes = Depth - 1
    /\ Len(rb_out) = Depth - 2
    /\ rb_out[1].seq = SeqAdd(rb_start, 1)
    /\ ~RbFull

\* C14: full is asserted, and write_ready deasserted, exactly when
\* Depth - 1 entries are outstanding, and never more are outstanding.
C14_FullAtCapacity ==
    /\ RbFull <=> Len(rb_out) = Depth - 1
    /\ RbWriteReady <=> ~RbFull
    /\ Len(rb_out) <= Depth - 1

(***************************************************************************)
(* Properties of the transmit engine                                       *)
(***************************************************************************)
\* C5: the k-th TLP the engine accepts (k = 0, 1, ...) is latched with the
\* sequence number (start + k) mod 4096; one sequence number is allocated
\* per TLP accepted, however long tlp_sink.valid is asserted and however
\* long the engine waits in STORE or in TX.
C5_OneSeqPerTlp ==
    /\ \A i \in 1 .. Len(tx_seqs) : tx_seqs[i] = (tx_start + i - 1) % SeqMod
    /\ tx_allocs = Len(tx_seqs)
    /\ tx_counter = (tx_start + Len(tx_seqs)) % SeqMod
    /\ tx_seqs # <<>> => tx_current_seq = tx_seqs[Len(tx_seqs)]

\* Four TLPs accepted across the wrap of the sequence counter, the last
\* after the engine waited for the retry buffer and for the PHY.
C5_Witness ==
    /\ tx_seqs = <<DLL_SEQUENCE_NUM_MAX - 1, DLL_SEQUENCE_NUM_MAX, 0, 1>>
    /\ tx_obs.store_stalled
    /\ tx_obs.phy_stalled
    /\ tx_state = "IDLE"

\* C6: a TLP on phy_source was written into the retry buffer first, once,
\* with the sequence number latched with it, and is the TLP accepted; before
\* it is written it is not on phy_source; and a tick in STORE with the retry
\* buffer full writes nothing and leaves the engine in STORE.
C6_StoreBeforeTx ==
    /\ [](/\ TxPhyValid =>
               /\ tx_obs.writes = 1
               /\ TxPhyData = tx_obs.data
               /\ rb_mem[PtrTrunc(rb_write_ptr + Depth - 1)] =
                      [seq |-> tx_current_seq, data |-> TxPhyData]
          /\ tx_obs.writes = 0 => ~TxPhyValid
          /\ tx_obs.presents > 0 => tx_obs.writes = 1)
    /\ [][(tx_state = "STORE" /\ RbFull) =>
              /\ tx_state' = "STORE"
              /\ rb_mem' = rb_mem
              /\ rb_write_ptr' = rb_write_ptr]_vars

\* A TLP on phy_source after the engine waited in STORE for a slot of the
\* full retry buffer.
C6_Witness ==
    /\ TxPhyValid
    /\ tx_obs.store_stalled
    /\ tx_obs.writes = 1
    /\ ~rb_spurious
    /\ Len(rb_out) = Depth - 1

\* C7: every entry that leaves the replay port of the retry buffer is on
\* phy_source in that tick (in a run in which no ACK came while nothing was
\* outstanding).
C7_ReplayOnPhy == ~rb_spurious => ~tx_replay_lost

(***************************************************************************)
(* Properties of the sequence number manager                               *)
(***************************************************************************)
\* C15: a TLP accepted by dll_tx is, PhyLatencyBound ticks later, forwarded
\* on dll_rx.tlp_source with the same payload, and dll_rx has sent an ACK
\* with the TLP's sequence number.
C15_EndToEnd ==
    phy_ticks >= PhyLatencyBound =>
        /\ Len(rx_fwd_seqs) > 0
        /\ rx_last_fwd.data = tx_current_data
        /\ rx_obs.acks > 0
        /\ rx_obs.ack_seq = tx_current_seq

\* C16: the i-th tick with tx_alloc since reset (i = 0, 1, ...) shows
\* tx_seq_num = i mod 4096, and the counter is the number of allocations so
\* far mod 4096, so that ticks without tx_alloc leave it as it is.
C16_AllocReturnsIndex ==
    /\ sm_tx_counter = sm_allocs % SeqMod
    /\ sm_allocs > 0 => sm_last_seq = (sm_allocs - 1) % SeqMod

\* Allocation 4096 (the 4097th) returned 0, as allocation 0 did.
C16_Witness ==
    /\ sm_allocs = SeqMod + 1
    /\ sm_last_seq = 0
    /\ sm_tx_counter = 1

(***************************************************************************)
(* Properties of the PIPE framer and deframer                              *)
(***************************************************************************)
\* C17: in loopback every payload symbol has the control flag clear, every
\* payload delivered is the payload of the packet sent, in order, and each
\* packet is delivered in the tick its end symbol is received, also when the
\* next packet follows at once.
C17_LoopbackRoundTrip ==
    /\ fr_emit = "data" => ~fr_tx_datak
    /\ df_count = Len(fr_sent) - (IF fr_emit = "idle" THEN 0 ELSE 1)
    /\ df_last.valid => /\ df_count > 0
                        /\ df_last.dat = fr_sent[df_count]

\* The second packet, made of control-code values, is delivered while the
\* start symbol of the third is already on the wire.
C17_Witness ==
    /\ df_last.valid
    /\ df_count = 2
    /\ df_last.dat = WordK
    /\ fr_emit = "start"

C19_FillerIgnored ==
    /\ [](/\ df_state = "DATA" =>
               /\ df_byte_counter = df_nbytes % 8
               /\ \A i \in 1 .. df_nbytes : df_data_buffer[i] = df_pkt[i]
          /\ (df_last.valid /\ df_nbytes = 8) => df_last.dat = df_pkt)
    /\ [][(df_state = "DATA" /\ df_last'.sym.k /\ df_last'.sym.d # PIPE_K29_7_END) =>
              /\ df_data_buffer' = df_data_buffer
              /\ df_byte_counter' = df_byte_counter
              /\ df_state' = "DATA"
              /\ ~df_last'.valid]_vars

\* A packet of control-code values delivered after two ignored control
\* symbols.
C19_Witness ==
    /\ df_last.valid
    /\ df_nbytes = 8
    /\ df_fillers = 2
    /\ df_pkt = WordK
    /\ df_last.dat = WordK

\* C20: the electrical-idle request is clear in a tick in which a symbol of
\* a packet is on pipe_tx_data, and set in a tick in which none is and no
\* packet is presented.
C20_ElecIdleBetweenPackets ==
    /\ fr_emit # "idle" => ~PipeTxElecIdle
    /\ (fr_emit = "idle" /\ fr_state = "IDLE" /\ ~fr_in.valid) => PipeTxElecIdle

(***************************************************************************)
(* Properties of the LTSSM                                                 *)
(***************************************************************************)
\* C21: from Detect, with a partner that is detected and whose TS1 and TS2
\* are seen when the fsm waits for them, current_state is L0 and link_up
\* is set after LtTrainTicks ticks, never later; from L0 a tick with
\* rx_elecidle and no request for a low-power state leads to a Recovery
\* state, and link_up is clear once current_state shows the Recovery state
\* entered.
C21_TrainsToL0 ==
    /\ [](/\ lt_train <= LtTrainTicks
          /\ lt_train = LtTrainTicks => (lt_current_state = "L0" /\ lt_link_up)
          /\ lt_current_state \in {"RECOVERY", "RECOVERY_RCVRLOCK", "RECOVERY_SPEED"} =>
                ~lt_link_up)
    /\ [][(lt_state = "L0" /\ lt_in.rx_elecidle /\ ~lt_in.enter_l1 /\ ~lt_in.enter_l0s) =>
              lt_state' \in {"RECOVERY", "RECOVERY_RCVRLOCK", "RECOVERY_SPEED"}]_vars

\* The detailed LTSSM LtTrainTicks ticks after Detect, link_up set, and
\* the fsm already in Recovery after a first tick of L0 with rx_elecidle.
C21_Witness ==
    /\ lt_cfg = LtDetailed
    /\ lt_train = LtTrainTicks
    /\ lt_current_state = "L0"
    /\ lt_link_up
    /\ lt_state = "RECOVERY_RCVRLOCK"

\* C22: link_up is set exactly when current_state is L0 or an L0s state:
\* it is clear while current_state is Detect, a Polling state,
\* Configuration, a Recovery state, L1 or L2.
C22_LinkUpOnlyInL0 ==
    lt_link_up <=> lt_current_state \in {"L0", "L0s_IDLE", "L0s_FTS"}

\* link_up clear in RECOVERY_SPEED, entered from L0.
C22_Witness ==
    /\ lt_current_state = "RECOVERY_SPEED"
    /\ lt_neg.valid
    /\ ~lt_link_up

\* C23: from L0 a tick with rx_elecidle or with a speed change required
\* leads to a Recovery state, whatever the other inputs.
C23_L0ToRecovery ==
    [][(lt_state = "L0" /\ (lt_in.rx_elecidle \/ LtSpeedChangeRequired)) =>
           lt_state' \in LtRecoveryStates]_vars

\* C24: the fsm goes from a Recovery state to L0 only when, since Recovery
\* was entered, rx_elecidle was seen clear and a TS1 was detected.
C24_RecoveryExit ==
    [][(lt_state \in LtRecoveryStates /\ lt_state' = "L0") =>
           (lt_seen'.active /\ lt_seen'.ts1)]_vars

\* C25: the fsm does not stay for ever in Polling or in Configuration.
C25_TrainingTimeout ==
    (lt_state \in LtPollingStates \cup {"CONFIGURATION"}) ~>
        (lt_state \notin LtPollingStates \cup {"CONFIGURATION"})

\* C26: send_ts1 is set only while current_state is a Polling or Recovery
\* state other than those that send TS2, send_ts2 only while it is
\* Configuration, POLLING.Configuration or RECOVERY.Idle, and both are
\* clear while it is Detect, L0, an L0s state, L1 or L2.
C26_TrainingSetsByState ==
    /\ lt_send_ts1 =>
          lt_current_state \in
              (LtPollingStates \cup LtRecoveryStates)
                  \ {"POLLING_CONFIGURATION", "RECOVERY_IDLE"}
    /\ lt_send_ts2 =>
          lt_current_state \in {"CONFIGURATION", "POLLING_CONFIGURATION", "RECOVERY_IDLE"}
    /\ lt_current_state \in {"DETECT", "L0", "L0s_IDLE", "L0s_FTS", "L1", "L2"} =>
          (~lt_send_ts1 /\ ~lt_send_ts2)

\* Back in L0 after a Recovery that sent TS1, with both requests clear.
C26_Witness ==
    /\ lt_current_state = "L0"
    /\ lt_state = "L0"
    /\ lt_link_speed = 2
    /\ ~lt_send_ts1
    /\ ~lt_send_ts2

\* C27: tx_elecidle is set while current_state is Detect, a Recovery state
\* just entered, L0s idle, L1 or L2, and clear in L0s FTS.
C27_ElecIdleByState ==
    /\ lt_current_state \in {"DETECT", "L0s_IDLE", "L1", "L2"} => lt_tx_elecidle
    /\ lt_current_state \in {"RECOVERY", "RECOVERY_RCVRLOCK", "RECOVERY_SPEED"} =>
          lt_tx_elecidle
    /\ lt_current_state = "L0s_FTS" => ~lt_tx_elecidle

\* C27 as amended: tx_elecidle is set while current_state is Detect, L0s
\* idle, L1 or L2, and clear while it is a Recovery state or L0s FTS.
C27_ElecIdleNotInRecovery ==
    /\ lt_current_state \in {"DETECT", "L0s_IDLE", "L1", "L2"} => lt_tx_elecidle
    /\ lt_current_state \in LtRecoveryStates \cup {"L0s_FTS"} => ~lt_tx_elecidle

\* Recovery of a trained 4-lane LTSSM, the partner out of idle, with
\* tx_elecidle clear.
C27_Witness ==
    /\ lt_current_state = "RECOVERY"
    /\ lt_state = "RECOVERY"
    /\ lt_link_width = 2
    /\ ~lt_tx_elecidle
    /\ lt_seen.active

\* C28: once Configuration was left for L0, link_width and
\* configured_lanes are the smaller of the lane count and the
\* rx_link_width of that tick, until the fsm is in Configuration again.
C28_WidthLatched ==
    lt_neg.valid =>
        LET w == IF lt_neg.rx_link_width < lt_cfg.lanes
                 THEN lt_neg.rx_link_width
                 ELSE lt_cfg.lanes
        IN  lt_link_width = w /\ lt_configured_lanes = w

\* A 4-lane LTSSM that trained with a 2-lane partner, now in L2.
C28_Witness ==
    /\ lt_neg.valid
    /\ lt_cfg.lanes = 4
    /\ lt_neg.rx_link_width = 2
    /\ lt_link_width = 2
    /\ lt_current_state = "L2"

\* C29: lane_reversal is set exactly when the lane numbers received are in
\* inverted order, logical_lane_map gives each lane the number received
\* on it, and the map is a permutation of the lanes.
C29_LaneReversal ==
    ln_lanes > 1 =>
        /\ LaneReversal <=>
              \A i \in 0 .. ln_lanes - 1 : ln_rx_lane_numbers[i + 1] = ln_lanes - 1 - i
        /\ (LaneReversal \/ \A i \in 0 .. ln_lanes - 1 : ln_rx_lane_numbers[i + 1] = i) =>
              \A i \in 0 .. ln_lanes - 1 : LogicalLaneMap(i) = ln_rx_lane_numbers[i + 1]
        /\ {LogicalLaneMap(i) : i \in 0 .. ln_lanes - 1} = 0 .. ln_lanes - 1


\* C30: for every TLP the TX engine accepted, debug_last_lcrc equals
\* calculate_lcrc32 over the payload bytes of that TLP. Once CALC_LCRC is
\* over (STORE, TX) the debug register holds the LCRC of the bytes of
\* current_data, whichever number of low bytes counts as the payload.
C30_DebugLcrcOfPayload ==
    tx_state \in {"STORE", "TX"} =>
        \E n \in 1 .. Len(tx_current_data) :
            tx_debug.last_lcrc = calculate_lcrc32(SubSeq(tx_current_data, 1, n))

(***************************************************************************)
(* Further properties of the receive engine                                *)
(***************************************************************************)
\* C34: the NAK on nak_source carries the sequence number of the last
\* packet the engine acknowledged and forwarded: the one before rx_start
\* for an engine that has forwarded none since the start of the run, and
\* 0 when no packet was ever acknowledged.
C34_NakCarriesLastAcked ==
    RxNakValid =>
        RxNakSeqNum =
            IF rx_fwd_seqs # <<>> THEN rx_fwd_seqs[Len(rx_fwd_seqs)]
            ELSE IF rx_start = 0 THEN 0
            ELSE SeqAdd(rx_start, -1)

\* A NAK after two packets were acknowledged, for a packet that carries
\* another sequence number than the last of them.
C34_Witness ==
    /\ RxNakValid
    /\ Len(rx_fwd_seqs) = 2
    /\ rx_current_seq # rx_fwd_seqs[2]
    /\ rx_in.nak_ready

(***************************************************************************)
(* Further properties of the LTSSM                                         *)
(***************************************************************************)
\* C35: with the detailed substates the fsm goes from POLLING.Active to
\* POLLING.Configuration only when ts1_detected was set in each of the
\* LtPollingTs1Count ticks before, and a tick of POLLING.Active without
\* ts1_detected sets the count of TS1 back to 0.
C35_ConsecutiveTs1 ==
    /\ [][(lt_state = "POLLING_ACTIVE" /\ lt_state' = "POLLING_CONFIGURATION") =>
              lt_seen.run >= LtPollingTs1Count]_vars
    /\ [][(lt_state = "POLLING_ACTIVE" /\ ~lt_in.ts1_detected) =>
              lt_ts1_rx_count' = 0]_vars

\* C40: while link_up is set, link_width and configured_lanes are at least
\* 1 and at most the lane count of the LTSSM.
C40_WidthInRange ==
    lt_link_up =>
        /\ lt_link_width \in 1 .. lt_cfg.lanes
        /\ lt_configured_lanes \in 1 .. lt_cfg.lanes

(***************************************************************************)
(* Further properties of the retry buffer                                  *)
(***************************************************************************)
\* C36: whenever replay_valid is set, the slot under the read pointer holds
\* an entry that is still outstanding, with the sequence number and the
\* payload it was pushed with (in a run in which no ACK came while nothing
\* was outstanding).
C36_ReplayOffersOutstanding ==
    (RbReplayValid /\ ~rb_spurious) =>
        \E k \in 1 .. Len(rb_out) :
            /\ rb_out[k].slot = rb_read_ptr
            /\ rb_mem[rb_read_ptr] = [seq |-> rb_out[k].seq, data |-> rb_out[k].data]

(***************************************************************************)
(* Further properties of the PIPE framer and deframer                      *)
(***************************************************************************)
\* C37: the word the deframer delivers holds the data symbols received
\* since the start symbol of the frame, in their byte positions, and
\* nothing else: a byte position the frame did not fill is 0, not a byte
\* of an earlier frame.
C37_OwnSymbolsOnly ==
    df_last.valid =>
        \A i \in 1 .. 8 :
            df_last.dat[i] = IF i <= df_nbytes THEN df_pkt[i] ELSE 0

\* C39: a packet shown on source in a tick in which the consumer was not
\* ready is still shown, with the same data, in the next tick.
C39_HeldUntilReady ==
    [][(df_last.valid /\ ~df_last.ready) =>
           (df_last'.valid /\ df_last'.dat = df_last.dat)]_vars

\* C38: the data symbols the framer emits for a packet are the bytes of
\* the word that was on sink in the tick the packet was accepted, from the
\* least significant, whatever the sender puts on sink while the frame is
\* emitted.
C38_BytesOfAcceptedWord ==
    \A i \in 2 .. Len(fr_syms) :
        i <= 9 => fr_syms[i] = [d |-> fr_pkt[i - 1], k |-> FALSE]

(***************************************************************************)
(* Properties of the CRC generators, the LCRC checker and the DLLP         *)
(* generators                                                              *)
(***************************************************************************)
\* C32: whatever bytes were fed, one per tick with any idle ticks between
\* them, since the last reset: after at least one byte crc_out of the
\* LCRC-32 generator is calculate_lcrc32 of those bytes, and after six bytes
\* crc_out of the DLLP CRC-16 generator is calculate_dllp_crc16 of them.
C32_IncrementalIsBatch ==
    /\ Len(cg_fed) >= 1 => cg_crc = calculate_lcrc32(cg_fed)
    /\ Len(cg_fed) = DLLP_DATA_LENGTH_BYTES => cg_crc16 = calculate_dllp_crc16(cg_fed)

\* Six bytes, not all the same, have been fed and the bench is idle with a
\* byte left on data_in.
C32_Witness ==
    /\ Len(cg_fed) = DLLP_DATA_LENGTH_BYTES
    /\ \E i, j \in 1 .. Len(cg_fed) : cg_fed[i] # cg_fed[j]
    /\ ~cg_in.data_valid /\ ~cg_in.reset /\ cg_in.data_in # 0
    /\ cg_crc = calculate_lcrc32(cg_fed)

\* C33: once the checker has taken the data and the four CRC bytes after
\* it and data_valid is low, crc_error is deasserted when the four bytes
\* were the LCRC of the data and asserted when they were anything else.
C33_ErrorIffCrcWrong ==
    (ck_pos = Len(ck_feed) /\ ck_pos > ck_data_len /\ ~ck_in.data_valid /\ ~ck_in.reset)
        => (crc_error(ck_crc, ck_in.data_valid)
               <=> SubSeq(ck_feed, ck_data_len + 1, Len(ck_feed))
                      # CkCrcBytes(calculate_lcrc32(SubSeq(ck_feed, 1, ck_data_len))))

\* C31: every DLLP a generator puts out, the first after reset and every
\* later one, carries the type code of the generator, the sequence number
\* that was on seq_num when generate was accepted, and the CRC-16 that
\* calculate_dllp_crc16 gives for the six header bytes of that DLLP.
C31_DllpFieldsAndCrc ==
    dllp_valid =>
        /\ dllp_type = dg_type
        /\ dllp_seq_num = dg_asked
        /\ dllp_crc = calculate_dllp_crc16(DllpData(dg_type, dg_asked))

====
